---- MODULE Spec2Model ----
(***************************************************************************)
(* Lead synchronisation and deduplication: the spreadsheet CRM             *)
(* (src/src/crm/sheets.py), the sourcing loop (src/src/main.py) and the    *)
(* three synchronisation passes (src/src/outreach/sync_replies.py,         *)
(* src/dashboard/app/main.py, src/src/outreach/sync_instantly.py).         *)
(*                                                                         *)
(* Cell values are strings, as in the sheet.  A Python dict is a function  *)
(* whose DOMAIN is its key set, so dict.get(k, default) is Get below.      *)
(***************************************************************************)
EXTENDS Integers, Sequences, FiniteSets, TLC

\* ------------------------------------------------------------------ strings

\* str.lower() on the strings the model uses (every other string of the
\* model has no upper-case letter and is its own lower-case form).
Lower(s) ==
    CASE s = "Bob@x.com" -> "bob@x.com"
      [] s = "BOB@X.COM" -> "bob@x.com"
      [] s = "Lisbon"    -> "lisbon"
      [] s = "Porto"     -> "porto"
      [] s = "Replied"   -> "replied"
      [] s = "REPLIED"   -> "replied"
      [] s = "Active"    -> "active"
      [] s = "E2@x.com"  -> "e2@x.com"
      [] s = "Status"    -> "status"
      [] s = "Digital Marketing"   -> "digital marketing"
      [] s = "Software"            -> "software"
      [] s = "Enterprise Software" -> "enterprise software"
      [] OTHER           -> s

\* Python truthiness of a string cell / of dict.get(k) (None when absent).
None == "<None>"

Truthy(s) == s # "" /\ s # None

\* dict.get(k, default)
Get(d, k, default) == IF k \in DOMAIN d THEN d[k] ELSE default

\* A Python value of a key whose type the caller does not control (JSON of
\* the platform, the enrichment's employee_count): an int, a str, a bool
\* or None.
IntVal(n) == [kind |-> "int", n |-> n]

StrVal(x) == [kind |-> "str", s |-> x]

BoolVal(b) == [kind |-> "bool", b |-> b]

NoneVal == [kind |-> "none"]

\* bool(v) of such a value
PyTruthy(v) ==
    CASE v.kind = "bool" -> v.b
      [] v.kind = "int"  -> v.n # 0
      [] v.kind = "str"  -> v.s # ""
      [] OTHER           -> FALSE

\* A dict literal: the keys whose value is not Absent.
Absent == [kind |-> "absent"]

Dict(pairs) == [k \in {x \in DOMAIN pairs : pairs[x] # Absent} |-> pairs[k]]

\* ------------------------------------------------------------- the sheet

CRM_HEADERS ==
    << "ID", "Company", "Contact Name", "Email", "Phone", "Website",
       "Industry", "Employee Count", "City", "Country", "Lead Score",
       "Status", "Date Added", "Last Contact", "Email 1 Sent",
       "Email 2 Sent", "Email 3 Sent", "Email 4 Sent", "Opens", "Clicks",
       "Response", "Notes", "Source", "LinkedIn", "Title",
       "Instantly Status" >>

\* header.lower().replace(" ", "_") for each header, in header order
HeaderKey ==
    << "id", "company", "contact_name", "email", "phone", "website",
       "industry", "employee_count", "city", "country", "lead_score",
       "status", "date_added", "last_contact", "email_1_sent",
       "email_2_sent", "email_3_sent", "email_4_sent", "opens", "clicks",
       "response", "notes", "source", "linkedin", "title",
       "instantly_status" >>

NCols == Len(CRM_HEADERS)

\* field_to_col of update_lead: key -> 1-based column, 0 for an unknown key
field_to_col(field) ==
    IF \E i \in 1..NCols : HeaderKey[i] = field
    THEN CHOOSE i \in 1..NCols : HeaderKey[i] = field
    ELSE 0

\* What the Sheets API returns for a row: trailing empty cells are dropped.
RECURSIVE row_values(_)
row_values(row) ==
    IF row = << >> THEN << >>
    ELSE IF row[Len(row)] = "" THEN row_values(SubSeq(row, 1, Len(row) - 1))
    ELSE row

\* the padding with "0" in the two counter columns
PadRow_zero_counters(row) ==
    [i \in 1..NCols |-> IF i <= Len(row) THEN row[i]
                        ELSE IF HeaderKey[i] \in {"opens", "clicks"} THEN "0" ELSE ""]

\* _row_to_dict: pad the row to the header count, then read by position.
PadRow(row) == [i \in 1..NCols |-> IF i <= Len(row) THEN row[i] ELSE ""]

row_to_dict(row) ==
    LET r == PadRow(row) IN
    [ id |-> r[1], company |-> r[2], contact_name |-> r[3], email |-> r[4],
      phone |-> r[5], website |-> r[6], industry |-> r[7],
      employee_count |-> r[8], city |-> r[9], country |-> r[10],
      lead_score |-> r[11], status |-> r[12], date_added |-> r[13],
      last_contact |-> r[14], email_1_sent |-> r[15], email_2_sent |-> r[16],
      email_3_sent |-> r[17], email_4_sent |-> r[18], opens |-> r[19],
      clicks |-> r[20], response |-> r[21], notes |-> r[22],
      source |-> r[23], linkedin |-> r[24], title |-> r[25],
      instantly_status |-> r[26] ]

\* worksheet.find(query, in_column=col): the first row (the header row is
\* row 1) whose cell in that column equals the query exactly; 0 when none.
\* gspread compares cell.value == query, so the match is case-sensitive.
Matches(sh, query, col) == {i \in 1..Len(sh) : sh[i][col] = query}

find(sh, query, col) ==
    IF Matches(sh, query, col) = {} THEN 0
    ELSE CHOOSE i \in Matches(sh, query, col) :
            \A j \in Matches(sh, query, col) : i <= j

\* A lookup result: Python's None, or the decoded lead.
NoLead == [found |-> FALSE]

Found(lead) == [found |-> TRUE, lead |-> lead]

\* find_lead_by_email: the decoded first match, or None
find_lead_by_email(sh, email) ==
    LET r == find(sh, email, 4) IN
    IF r # 0 THEN Found(row_to_dict(row_values(sh[r]))) ELSE NoLead

\* the company matches with the city compared as written, not lower-cased
CompanyMatches_exact_city(sh, company, city) ==
    {i \in Matches(sh, company, 2) :
        ~(Truthy(city) /\ row_to_dict(row_values(sh[i])).city # city)}

\* find_lead_by_company: the first row with that company whose city equals
\* the given one ignoring case; a falsy city accepts the first company match.
CompanyMatches(sh, company, city) ==
    {i \in Matches(sh, company, 2) :
        ~(Truthy(city) /\ Lower(row_to_dict(row_values(sh[i])).city) # Lower(city))}

find_lead_by_company(sh, company, city) ==
    IF CompanyMatches(sh, company, city) = {} THEN NoLead
    ELSE LET r == CHOOSE i \in CompanyMatches(sh, company, city) :
                     \A j \in CompanyMatches(sh, company, city) : i <= j
         IN Found(row_to_dict(row_values(sh[r])))

\* -------------------------------------------------- calculate_lead_score

\* int(s.replace(",", "").split("-")[0]) on the strings the model uses:
\* the parsed number, or -1 where int() raises ValueError.
ParseEmployeeCount(x) ==
    CASE x = "45"    -> 45
      [] x = "7"     -> 7
      [] x = "150"   -> 150
      [] x = "1,200" -> 1200
      [] x = "10-50" -> 10
      [] OTHER       -> -1

\* `ind in industry` for some good industry, on the lower-cased industries
\* the model uses.
GoodIndustry(industry) ==
    Lower(industry) \in {"digital marketing", "advertising", "pr agency", "media",
                         "enterprise software"}

\* The employee count the score compares: 0 for a missing key or a string
\* that does not parse; a None value makes the comparison raise TypeError.
EmployeeCount(lead) ==
    IF "employee_count" \notin DOMAIN lead THEN 0
    ELSE IF lead.employee_count.kind = "int" THEN lead.employee_count.n
    ELSE IF lead.employee_count.kind = "str"
    THEN (IF ParseEmployeeCount(lead.employee_count.s) < 0 THEN 0
          ELSE ParseEmployeeCount(lead.employee_count.s))
    ELSE -1

ScoreRaises(lead) ==
    "employee_count" \in DOMAIN lead /\ lead.employee_count.kind = "none"

\* the sweet spot without its end points
EmployeePoints_exclusive(n) ==
    IF 10 < n /\ n < 100 THEN 2 ELSE IF 5 <= n /\ n <= 200 THEN 1 ELSE 0

EmployeePoints(n) ==
    IF 10 <= n /\ n <= 100 THEN 2 ELSE IF 5 <= n /\ n <= 200 THEN 1 ELSE 0

Min(a, b) == IF a <= b THEN a ELSE b

\* calculate_lead_score, for a lead on which it does not raise
calculate_lead_score(lead) ==
    Min(  (IF Truthy(Get(lead, "email", None)) THEN 2 ELSE 0)
        + (IF Truthy(Get(lead, "website", None)) THEN 1 ELSE 0)
        + (IF Truthy(Get(lead, "phone", None)) THEN 1 ELSE 0)
        + EmployeePoints(EmployeeCount(lead))
        + (IF GoodIndustry(IF Truthy(Get(lead, "industry", None))
                           THEN lead.industry ELSE "") THEN 2 ELSE 0)
        + (IF Truthy(Get(lead, "linkedin", None)) THEN 1 ELSE 0),
        10)

\* str(employee_count) as add_lead writes it
EmployeeCountCell(v) ==
    IF v.kind = "int" THEN ToString(v.n)
    ELSE IF v.kind = "str" THEN v.s
    ELSE "None"

\* ------------------------------------------------------------- the clock

\* datetime.now() in seconds; strftime('%Y%m%d%H%M%S') keeps the second,
\* strftime("%Y-%m-%d %H:%M") only the minute.
SecondsPerMinute == 60

generate_id(t) == "LEAD-" \o ToString(t)

MinuteStamp(t) == "T" \o ToString(t \div SecondsPerMinute)

\* ------------------------------------------------------------- add_lead

\* The row add_lead builds from lead_data (a dict) and the generated id.
NewRow(d, lead_id, t) ==
    << lead_id, Get(d, "company", ""), Get(d, "contact_name", ""),
       Get(d, "email", ""), Get(d, "phone", ""), Get(d, "website", ""),
       Get(d, "industry", ""),
       IF "employee_count" \in DOMAIN d THEN EmployeeCountCell(d.employee_count) ELSE "",
       Get(d, "city", ""), Get(d, "country", ""),
       IF "lead_score" \in DOMAIN d THEN ToString(d.lead_score) ELSE "",
       Get(d, "status", "New"), MinuteStamp(t), "",
       "FALSE", "FALSE", "FALSE", "FALSE", "0", "0", "",
       Get(d, "notes", ""), Get(d, "source", ""), Get(d, "linkedin", ""),
       Get(d, "title", ""), "" >>

\* The email check of add_lead: a truthy email that find_lead_by_email finds.
EmailDuplicate(sh, d) ==
    Truthy(Get(d, "email", "")) /\ find_lead_by_email(sh, Get(d, "email", "")).found

\* The company + city check of add_lead.
CompanyDuplicate(sh, d) ==
    /\ Truthy(Get(d, "company", ""))
    /\ find_lead_by_company(sh, Get(d, "company", ""), Get(d, "city", "")).found

\* The store calls add_lead makes, in order: a lookup only for a truthy key,
\* the company lookup only when the email lookup found nothing.
EmailCalls(d) ==
    IF Truthy(Get(d, "email", "")) THEN << "find_lead_by_email" >> ELSE << >>

CompanyCalls(d) ==
    IF Truthy(Get(d, "company", "")) THEN << "find_lead_by_company" >> ELSE << >>

\* add_lead with the company + city check left out
add_lead_no_company_check(sh, d, t) ==
    IF EmailDuplicate(sh, d)
    THEN [ret |-> None, sheet |-> sh, calls |-> EmailCalls(d)]
    ELSE [ret |-> generate_id(t),
          sheet |-> Append(sh, NewRow(d, generate_id(t), t)),
          calls |-> EmailCalls(d) \o CompanyCalls(d) \o << "append_row" >>]

\* add_lead as a function of the sheet and the clock: the value returned
\* (None for a duplicate), the sheet afterwards and the store calls made.
add_lead(sh, d, t) ==
    IF EmailDuplicate(sh, d)
    THEN [ret |-> None, sheet |-> sh, calls |-> EmailCalls(d)]
    ELSE IF CompanyDuplicate(sh, d)
    THEN [ret |-> None, sheet |-> sh, calls |-> EmailCalls(d) \o CompanyCalls(d)]
    ELSE [ret |-> generate_id(t),
          sheet |-> Append(sh, NewRow(d, generate_id(t), t)),
          calls |-> EmailCalls(d) \o CompanyCalls(d) \o << "append_row" >>]

\* ---------------------------------------------------------- update_lead

\* The row after the first n entries of updates: update_cell runs once per
\* known field, in order; an unknown field (no column) is skipped.
RECURSIVE WriteFields(_, _, _)
WriteFields(row, updates, n) ==
    IF n = 0 THEN row
    ELSE LET col == field_to_col(Lower(updates[n][1]))
             written == WriteFields(row, updates, n - 1)
         IN IF col = 0 THEN written ELSE [written EXCEPT ![col] = updates[n][2]]

\* update_lead refusing the whole update when a field has no column
update_lead_strict(sh, lead_id, updates, failAt) ==
    LET r == find(sh, lead_id, 1) IN
    IF r = 0 THEN [ret |-> FALSE, sheet |-> sh]
    ELSE IF \E k \in 1..Len(updates) : field_to_col(Lower(updates[k][1])) = 0
    THEN [ret |-> FALSE, sheet |-> sh]
    ELSE [ret |-> TRUE,
          sheet |-> [sh EXCEPT ![r] = WriteFields(sh[r], updates, Len(updates))]]

NoFailure == NCols + 1

\* update_lead when store call number failAt raises (0: the lookup, k: the
\* k-th entry's update_cell, NoFailure: none).  Any exception is caught and
\* turns the result into False; cells written before it stay written.
update_lead(sh, lead_id, updates, failAt) ==
    LET r == find(sh, lead_id, 1) IN
    IF failAt = 0 THEN [ret |-> FALSE, sheet |-> sh]
    ELSE IF r = 0 THEN [ret |-> FALSE, sheet |-> sh]
    ELSE IF failAt <= Len(updates) /\ field_to_col(Lower(updates[failAt][1])) # 0
    THEN [ret |-> FALSE,
          sheet |-> [sh EXCEPT ![r] = WriteFields(sh[r], updates, failAt - 1)]]
    ELSE [ret |-> TRUE,
          sheet |-> [sh EXCEPT ![r] = WriteFields(sh[r], updates, Len(updates))]]

ResponseUpdates(response_text) ==
    << <<"response", response_text>>, <<"status", "Replied">> >>

mark_response_received(sh, lead_id, response_text, failAt) ==
    update_lead(sh, lead_id, ResponseUpdates(response_text), failAt)

\* get_all_emails: the lower-cased truthy cells of column D below the header
get_all_emails(sh) ==
    {Lower(sh[i][4]) : i \in {j \in 2..Len(sh) : sh[j][4] # ""}}


\* ======================================================================
\* State
\* ======================================================================

VARIABLES
    sheet,      \* the worksheet: row 1 is the header row, then one row per lead
    now,        \* datetime.now(), in seconds
    op,         \* the last repository call: its arguments, result and the sheet before it
    sourcing,   \* the run_daily_sourcing run in progress
    platform,   \* the outreach platform: its campaigns and their leads
    sync,       \* the synchronisation run in progress and its results
    cls         \* a platform lead handed to the reply classification, and the verdict

vars == << sheet, now, op, sourcing, platform, sync, cls >>

\* The sheet GoogleSheetsCRM.__init__ leaves behind: the headers only.
EmptySheet == << CRM_HEADERS >>

NoOp == [name |-> "none"]

\* ---------------------------------------------------------------- bounds

MaxRows == 2        \* lead rows a direct-call behaviour may add

\* a behaviour starts in the last second of a minute
StartNow == SecondsPerMinute - 1

MaxTicks == 1       \* seconds the clock may advance

\* ------------------------------------------------ direct repository calls

EmailInputs == {"", "bob@x.com", "Bob@x.com"}

CompanyInputs == {"", "Acme"}

CityInputs == {"", "Lisbon", "lisbon"}

\* lead_data dicts handed to add_lead: with and without a "status" key
LeadInputs ==
    {[email |-> e, company |-> c, city |-> ci] :
        e \in EmailInputs, c \in CompanyInputs, ci \in CityInputs}
    \cup
    {[email |-> e, company |-> "", city |-> "", status |-> "Queued"] : e \in EmailInputs}

NoSourcing == [pc |-> "idle"]

NoPlatform == [campaigns |-> << >>, leads |-> << >>]

NoStep ==
    [act |-> "none", kind |-> "none", ci |-> 0, li |-> 0, n |-> 0, email |-> "",
     outcome |-> "none", calls |-> << >>, before |-> << >>, prev |-> [errors |-> << >>]]

\* No entry point has been called.
NoEntry ==
    [fn |-> "none", api_key |-> None, raised |-> "none", caught |-> FALSE,
     calls |-> << >>, before |-> << >>]

NoSync ==
    [pc |-> "off", kind |-> "none", kinds |-> {}, budget |-> 0, maxFaults |-> 0, faults |-> 0,
     fstart |-> 0, results |-> [errors |-> << >>], campaigns |-> << >>, ci |-> 0,
     offset |-> 0, reqs |-> << >>, items |-> << >>, li |-> 0, replied |-> << >>,
     start |-> << >>, history |-> << >>, step |-> NoStep, race |-> << >>,
     entry |-> NoEntry]

NoCls == [pc |-> "off"]

InitCrm ==
    /\ sheet = EmptySheet
    /\ now = StartNow
    /\ op = NoOp
    /\ sourcing = NoSourcing
    /\ platform = NoPlatform /\ sync = NoSync /\ cls = NoCls

\* a caller invokes crm.add_lead(lead_data)
AddLead ==
    \E d \in LeadInputs :
        LET r == add_lead(sheet, d, now) IN
        /\ Len(sheet) - 1 < MaxRows
        /\ sheet' = r.sheet
        /\ op' = [name |-> "add_lead", d |-> d, ret |-> r.ret,
                  calls |-> r.calls, before |-> sheet]
        /\ UNCHANGED << now, sourcing, platform, sync, cls >>

\* a second passes
Tick ==
    /\ now < StartNow + MaxTicks
    /\ now' = now + 1
    /\ UNCHANGED << sheet, op, sourcing, platform, sync, cls >>

NextCrm == AddLead \/ Tick

SpecCrm == InitCrm /\ [][NextCrm]_vars

\* ======================================================================
\* run_daily_sourcing
\* ======================================================================

MaxBatch == 3       \* candidates the search returns in one run

MaxTarget == 2      \* target_leads of a run

\* What the search and the enrichment return for one agency: the agency's
\* name and website, the primary contact's email ("" when there is none)
\* and the organisation's employee_count ("" is the default of
\* enriched.get("employee_count", "")).
Candidate(name, website, email, emp) ==
    [name |-> name, website |-> website, email |-> email, emp |-> emp]

Candidates ==
    {Candidate(n, "w.io", e, IntVal(45)) :
        n \in {"Acme", "Beta"}, e \in {"", "bob@x.com", "Bob@x.com"}}
    \cup {Candidate("Beta", "", "Bob@x.com", IntVal(45)),
          Candidate("Beta", "w.io", "Bob@x.com", NoneVal),
          Candidate("Beta", "w.io", "Bob@x.com", StrVal(""))}

RECURSIVE SeqsUpTo(_, _)
SeqsUpTo(S, n) ==
    IF n = 0 THEN {<< >>}
    ELSE SeqsUpTo(S, n - 1)
         \cup {Append(q, x) : q \in {r \in SeqsUpTo(S, n - 1) : Len(r) = n - 1}, x \in S}

\* Ten candidates of ten companies; the seventh has the second's email.
ExampleBatch ==
    << Candidate("Co1", "w.io", "e1@x.com", IntVal(45)),
       Candidate("Co2", "w.io", "e2@x.com", IntVal(45)),
       Candidate("Co3", "w.io", "e3@x.com", IntVal(45)),
       Candidate("Co4", "w.io", "e4@x.com", IntVal(45)),
       Candidate("Co5", "w.io", "e5@x.com", IntVal(45)),
       Candidate("Co6", "w.io", "e6@x.com", IntVal(45)),
       Candidate("Co7", "w.io", "e2@x.com", IntVal(45)),
       Candidate("Co8", "w.io", "e8@x.com", IntVal(45)),
       Candidate("Co9", "w.io", "e9@x.com", IntVal(45)),
       Candidate("Co10", "w.io", "e10@x.com", IntVal(45)) >>

\* The sheets a sourcing run starts from: empty, or holding one lead that
\* an earlier add_lead wrote.
SourcingSheets ==
    {EmptySheet,
     add_lead(EmptySheet, [email |-> "bob@x.com", company |-> "Acme", city |-> "Lisbon"],
              StartNow).sheet}

SourcingCity == "Lisbon"

InitSource ==
    /\ sheet \in SourcingSheets
    /\ now = StartNow
    /\ op = NoOp
    /\ \E batch \in SeqsUpTo(Candidates, MaxBatch) \cup {ExampleBatch} :
       \E target \in (1..MaxTarget) \cup {Len(ExampleBatch)} :
          /\ (batch = ExampleBatch) <=> (target = Len(ExampleBatch))
          /\ sourcing = [pc |-> "start", batch |-> batch, target |-> target]
    /\ platform = NoPlatform /\ sync = NoSync /\ cls = NoCls

\* existing_emails = self.crm.get_all_emails(); a store failure yields set()
StartSourcing ==
    /\ sourcing.pc = "start"
    /\ \E ok \in BOOLEAN :
          LET loaded == IF ok THEN get_all_emails(sheet) ELSE {} IN
          sourcing' = [pc |-> "loop", batch |-> sourcing.batch,
                       target |-> sourcing.target, k |-> 1,
                       loaded |-> loaded, existing_emails |-> loaded,
                       new_leads |-> << >>, leads_needed |-> sourcing.target,
                       loads |-> 1, step_calls |-> << >>]
    /\ UNCHANGED << sheet, now, op, platform, sync, cls >>

\* lead_data as the loop builds it for one candidate
SourcedLead(c) ==
    [company |-> c.name, contact_name |-> "", email |-> c.email, phone |-> "",
     website |-> c.website, industry |-> "", employee_count |-> c.emp,
     city |-> SourcingCity, country |-> "", linkedin |-> "", title |-> "",
     source |-> "google_maps + apollo"]

\* existing_emails.add(email.lower()) with the add left out
RememberEmail_forgotten(existing, email) == existing

\* existing_emails.add(email.lower())
RememberEmail(existing, email) == existing \cup {Lower(email)}

\* the skip conditions without the look into existing_emails
SkippedEarly_no_set_check(src, c) ==
    \/ ~Truthy(c.website)
    \/ ~Truthy(c.email)

\* the candidate is skipped before any repository call
SkippedEarly(src, c) ==
    \/ ~Truthy(c.website)
    \/ ~Truthy(c.email)
    \/ Lower(c.email) \in src.existing_emails

\* one pass of the agency loop body
SourceCandidate ==
    /\ sourcing.pc = "loop"
    /\ sourcing.leads_needed > 0
    /\ sourcing.k <= Len(sourcing.batch)
    /\ LET c == sourcing.batch[sourcing.k]
           next == [sourcing EXCEPT !.k = @ + 1, !.step_calls = << >>]
           d == SourcedLead(c)
           scored == [d EXCEPT !.employee_count = @] @@ [lead_score |-> calculate_lead_score(d)]
           r == add_lead(sheet, scored, now)
       IN
       IF SkippedEarly(sourcing, c)
       THEN /\ sourcing' = next
            /\ UNCHANGED << sheet, op >>
       ELSE IF ScoreRaises(d)
       THEN /\ sourcing' = [next EXCEPT !.pc = "raised"]
            /\ UNCHANGED << sheet, op >>
       ELSE /\ sheet' = r.sheet
            /\ op' = [name |-> "add_lead", d |-> scored, ret |-> r.ret,
                      calls |-> r.calls, before |-> sheet]
            /\ sourcing' =
                  IF r.ret # None
                  THEN [next EXCEPT
                          !.new_leads = Append(@, [email |-> c.email, id |-> r.ret,
                                                   company |-> c.name]),
                          !.existing_emails = RememberEmail(@, c.email),
                          !.leads_needed = @ - 1,
                          !.step_calls = << "add_lead" >>]
                  ELSE [next EXCEPT !.step_calls = << "add_lead" >>]
    /\ UNCHANGED << now, platform, sync, cls >>

\* the loops end: the target is met or the search results are exhausted
FinishSourcing ==
    /\ sourcing.pc = "loop"
    /\ sourcing.leads_needed <= 0 \/ sourcing.k > Len(sourcing.batch)
    /\ sourcing' = [sourcing EXCEPT !.pc = "done", !.step_calls = << >>]
    /\ UNCHANGED << sheet, now, op, platform, sync, cls >>

NextSource == StartSourcing \/ SourceCandidate \/ FinishSourcing

SpecSource == InitSource /\ [][NextSource]_vars

\* ======================================================================
\* Reply classification
\* ======================================================================

\* lead.get("status", "").lower() raises AttributeError unless the value is
\* a str
StatusRaises(lead) == "status" \in DOMAIN lead /\ lead.status.kind # "str"

LoweredStatus(lead) == IF "status" \in DOMAIN lead THEN Lower(lead.status.s) ELSE ""

\* lead.get("reply_count", 0) > 0 raises TypeError for None and for a str
ReplyCountRaises(lead) ==
    "reply_count" \in DOMAIN lead /\ lead.reply_count.kind \in {"none", "str"}

ReplyCountPositive(lead) ==
    /\ "reply_count" \in DOMAIN lead
    /\ \/ lead.reply_count.kind = "int" /\ lead.reply_count.n > 0
       \/ lead.reply_count.kind = "bool" /\ lead.reply_count.b

\* has_replied with `and` in place of the first `or`
has_replied_all_signals(lead) ==
    IF StatusRaises(lead) THEN [raised |-> TRUE]
    ELSE IF LoweredStatus(lead) = "replied" /\ PyTruthy(Get(lead, "replied", BoolVal(FALSE)))
    THEN [raised |-> FALSE, replied |-> TRUE]
    ELSE IF ReplyCountRaises(lead) THEN [raised |-> TRUE]
    ELSE [raised |-> FALSE, replied |-> ReplyCountPositive(lead)]

\* has_replied of the page loop: `or` evaluates left to right and stops at
\* the first truthy operand, so a later operand raises only when reached.
has_replied(lead) ==
    IF StatusRaises(lead) THEN [raised |-> TRUE]
    ELSE IF LoweredStatus(lead) = "replied" THEN [raised |-> FALSE, replied |-> TRUE]
    ELSE IF PyTruthy(Get(lead, "replied", BoolVal(FALSE)))
    THEN [raised |-> FALSE, replied |-> TRUE]
    ELSE IF ReplyCountRaises(lead) THEN [raised |-> TRUE]
    ELSE [raised |-> FALSE, replied |-> ReplyCountPositive(lead)]

StatusValues ==
    {Absent, StrVal(""), StrVal("replied"), StrVal("Replied"), StrVal("REPLIED"),
     StrVal("Active"), IntVal(6), NoneVal}

RepliedValues == {Absent, BoolVal(TRUE), BoolVal(FALSE), NoneVal}

ReplyCountValues == {Absent, IntVal(0), IntVal(1), IntVal(2), NoneVal}

ClassifyInputs ==
    {Dict([status |-> st, replied |-> rp, reply_count |-> rc]) :
        st \in StatusValues, rp \in RepliedValues, rc \in ReplyCountValues}

InitClassify ==
    /\ sheet = EmptySheet /\ now = StartNow /\ op = NoOp /\ sourcing = NoSourcing
    /\ platform = NoPlatform /\ sync = NoSync
    /\ \E lead \in ClassifyInputs : cls = [pc |-> "lead", lead |-> lead]

\* the page loop classifies the lead
Classify ==
    /\ cls.pc = "lead"
    /\ cls' = [pc |-> "classified", lead |-> cls.lead, result |-> has_replied(cls.lead)]
    /\ UNCHANGED << sheet, now, op, sourcing, platform, sync >>

NextClassify == Classify

SpecClassify == InitClassify /\ [][NextClassify]_vars

\* ======================================================================
\* The outreach platform and the synchronisation passes
\* ======================================================================

limit == 100        \* page size of the lead/list requests

\* ------------------------------------------------------------ the platform

\* One platform lead with the keys the three passes read; every value is
\* a JSON value, and a key may be missing.
PlatformLead(email, status, replied, reply_count, reply_text, opens, clicks, replies) ==
    Dict([email |-> email, status |-> status, replied |-> replied,
          reply_count |-> reply_count, reply_text |-> reply_text,
          email_open_count |-> opens, email_click_count |-> clicks,
          email_reply_count |-> replies])

\* lead.get(k) of a text key: the string, or None
StrOf(lead, k) == IF k \in DOMAIN lead /\ lead[k].kind = "str" THEN lead[k].s ELSE None

\* lead.get(k, 0) of a counter key
IntOf(lead, k) == IF k \in DOMAIN lead /\ lead[k].kind = "int" THEN lead[k].n ELSE 0

\* bob with a status string and a reply text
LeadBob ==
    PlatformLead(StrVal("bob@x.com"), StrVal("Replied"), Absent, Absent,
                 StrVal("Interested"), IntVal(3), IntVal(1), IntVal(2))

\* bob's address with a capital, the replied flag, no reply text
LeadBobUpper ==
    PlatformLead(StrVal("Bob@x.com"), Absent, BoolVal(TRUE), Absent,
                 Absent, IntVal(1), IntVal(0), IntVal(1))

\* amy with a reply counter and a reply text
LeadAmy ==
    PlatformLead(StrVal("amy@x.com"), Absent, Absent, IntVal(1),
                 StrVal("Call me"), IntVal(2), IntVal(0), IntVal(1))

\* a replied lead without an email
LeadAnon ==
    PlatformLead(Absent, StrVal("replied"), Absent, Absent,
                 Absent, IntVal(0), IntVal(0), IntVal(1))

\* bob, not replied
LeadIdle ==
    PlatformLead(StrVal("bob@x.com"), StrVal("Active"), BoolVal(FALSE), IntVal(0),
                 Absent, IntVal(1), IntVal(0), Absent)

\* amy with the numeric status code of the v2 API (6: replied)
LeadCode ==
    PlatformLead(StrVal("amy@x.com"), IntVal(6), Absent, Absent,
                 Absent, IntVal(4), IntVal(2), IntVal(3))

PlatformLeads == {LeadBob, LeadBobUpper, LeadAnon, LeadCode}

\* the lead lists of the first campaign: no lead, one lead, two leads
FirstCampaignLeads ==
    {<< >>} \cup {<< a >> : a \in PlatformLeads}
            \cup {<< a, b >> : a \in PlatformLeads, b \in PlatformLeads}

\* list_campaigns: two campaigns
Campaigns == << [id |-> "c1", name |-> "Launch"], [id |-> "c2", name |-> "Followup"] >>

\* GET lead/list with skip and limit on a platform that honours both: the
\* leads at positions skip+1 .. skip+limit of the campaign
LeadPage(pf, campaign_id, skip, lim) ==
    SubSeq(pf.leads[campaign_id], skip + 1, Min(skip + lim, Len(pf.leads[campaign_id])))

\* ----------------------------------------------------------- results

ReplyResults ==
    [campaigns_checked |-> 0, replies_found |-> 0, crm_updated |-> 0,
     already_synced |-> 0, not_in_crm |-> 0, errors |-> << >>]

EngagementResults ==
    [campaigns_checked |-> 0, leads_checked |-> 0, crm_updated |-> 0,
     replies_found |-> 0, not_in_crm |-> 0, errors |-> << >>]

\* campaign.get("name", "Unknown")
CampaignName(campaign) == Get(campaign, "name", "Unknown")

\* The error entry of the per-campaign except clause: sync_replies.py and
\* sync_instantly.py tag it with the campaign's name, the dashboard with
\* its id; str(e) is the exception.
CampaignError(kind, campaign, exc) ==
    IF kind = "dashboard"
    THEN << "Error in campaign", Get(campaign, "id", None), exc >>
    ELSE << "Error syncing campaign", CampaignName(campaign), exc >>

LeadError(email) == << "Failed to update", email >>

\* ------------------------------------------- get_replied_leads, per page

\* the entry get_replied_leads keeps of a replied lead
RepliedEntry(lead) ==
    [email |-> StrOf(lead, "email"),
     replied_at |-> IF Truthy(StrOf(lead, "replied_at")) THEN StrOf(lead, "replied_at")
                    ELSE StrOf(lead, "last_reply_at"),
     reply_text |-> IF "reply_text" \in DOMAIN lead THEN StrOf(lead, "reply_text") ELSE "",
     status |-> LoweredStatus(lead)]

\* the verdict of the classification of a lead it does not raise on
IsReplied(lead) == has_replied(lead).replied

\* the entries one page adds to replied_leads, in page order
RepliedOf(page) ==
    LET replied == SelectSeq(page, IsReplied)
    IN [k \in 1..Len(replied) |-> RepliedEntry(replied[k])]

PageRaises(page) == \E k \in 1..Len(page) : has_replied(page[k]).raised

\* the exception the classification of a lead raises: .lower() on a status
\* that is no str, or `>` on a reply_count that is no number
ClassifyError(lead) == IF StatusRaises(lead) THEN "AttributeError" ELSE "TypeError"

\* the exception of the first lead of the page whose classification raises
PageError(page) ==
    ClassifyError(page[CHOOSE k \in 1..Len(page) :
                          /\ has_replied(page[k]).raised
                          /\ \A j \in 1..(k - 1) : ~has_replied(page[j]).raised])

\* ------------------------------------------------ one replied lead

\* reply text written for a replied lead: the platform's text, else the
\* pass's own fallback string
ReplyTextOf(kind, reply_text, replied_at) ==
    IF Truthy(reply_text) THEN reply_text
    ELSE IF kind = "dashboard" THEN "Replied (synced from Instantly)"
    ELSE "Replied on " \o (IF replied_at = None THEN "None" ELSE replied_at)

\* The loop body from the CRM lookup on with the already-synced check left out
sync_replied_lead_unguarded(kind, sh, res, email, reply_text, replied_at, failAt) ==
    LET crm_lead == find_lead_by_email(sh, email)
        w == mark_response_received(sh, crm_lead.lead.id,
                                    ReplyTextOf(kind, reply_text, replied_at), failAt)
    IN
    IF ~crm_lead.found
    THEN [sheet |-> sh, results |-> [res EXCEPT !.not_in_crm = @ + 1],
          outcome |-> "not_in_crm", calls |-> << "find_lead_by_email" >>]
    ELSE IF w.ret
    THEN [sheet |-> w.sheet, results |-> [res EXCEPT !.crm_updated = @ + 1],
          outcome |-> "updated",
          calls |-> << "find_lead_by_email", "mark_response_received" >>]
    ELSE [sheet |-> w.sheet,
          results |-> [res EXCEPT !.errors = Append(@, LeadError(email))],
          outcome |-> "failed",
          calls |-> << "find_lead_by_email", "mark_response_received" >>]

\* The loop body with a failed mark_response_received counted as an update
sync_replied_lead_failure_counted(kind, sh, res, email, reply_text, replied_at, failAt) ==
    LET r == sync_replied_lead_unguarded(kind, sh, res, email, reply_text,
                                         replied_at, failAt)
        crm_lead == find_lead_by_email(sh, email)
    IN
    IF crm_lead.found /\ Truthy(crm_lead.lead.response)
    THEN [sheet |-> sh, results |-> [res EXCEPT !.already_synced = @ + 1],
          outcome |-> "already_synced", calls |-> << "find_lead_by_email" >>]
    ELSE IF r.outcome = "failed"
    THEN [r EXCEPT !.results = [res EXCEPT !.crm_updated = @ + 1]]
    ELSE r

\* The loop body with a lead that is not in the CRM recorded as an error
sync_replied_lead_missing_is_error(kind, sh, res, email, reply_text, replied_at, failAt) ==
    LET crm_lead == find_lead_by_email(sh, email)
        w == mark_response_received(sh, crm_lead.lead.id,
                                    ReplyTextOf(kind, reply_text, replied_at), failAt)
    IN
    IF ~crm_lead.found
    THEN [sheet |-> sh,
          results |-> [res EXCEPT !.not_in_crm = @ + 1,
                                  !.errors = Append(@, LeadError(email))],
          outcome |-> "not_in_crm", calls |-> << "find_lead_by_email" >>]
    ELSE IF Truthy(crm_lead.lead.response)
    THEN [sheet |-> sh, results |-> [res EXCEPT !.already_synced = @ + 1],
          outcome |-> "already_synced", calls |-> << "find_lead_by_email" >>]
    ELSE IF w.ret
    THEN [sheet |-> w.sheet, results |-> [res EXCEPT !.crm_updated = @ + 1],
          outcome |-> "updated",
          calls |-> << "find_lead_by_email", "mark_response_received" >>]
    ELSE [sheet |-> w.sheet,
          results |-> [res EXCEPT !.errors = Append(@, LeadError(email))],
          outcome |-> "failed",
          calls |-> << "find_lead_by_email", "mark_response_received" >>]

\* The loop body for a replied lead with an email, from the CRM lookup on
\* (the lookup itself did not raise): sheet and results afterwards.
sync_replied_lead(kind, sh, res, email, reply_text, replied_at, failAt) ==
    LET crm_lead == find_lead_by_email(sh, email)
        w == mark_response_received(sh, crm_lead.lead.id,
                                    ReplyTextOf(kind, reply_text, replied_at), failAt)
    IN
    IF ~crm_lead.found
    THEN [sheet |-> sh, results |-> [res EXCEPT !.not_in_crm = @ + 1],
          outcome |-> "not_in_crm", calls |-> << "find_lead_by_email" >>]
    ELSE IF Truthy(crm_lead.lead.response)
    THEN [sheet |-> sh, results |-> [res EXCEPT !.already_synced = @ + 1],
          outcome |-> "already_synced", calls |-> << "find_lead_by_email" >>]
    ELSE IF w.ret
    THEN [sheet |-> w.sheet, results |-> [res EXCEPT !.crm_updated = @ + 1],
          outcome |-> "updated",
          calls |-> << "find_lead_by_email", "mark_response_received" >>]
    ELSE [sheet |-> w.sheet,
          results |-> [res EXCEPT !.errors = Append(@, LeadError(email))],
          outcome |-> "failed",
          calls |-> << "find_lead_by_email", "mark_response_received" >>]

\* --------------------------------------------- update_from_instantly

INSTANTLY_STATUS ==
    << "Active", "Paused", "Completed", "Bounced", "Unsubscribed", "Replied",
       "Interested", "Not Interested", "Meeting Booked", "Closed" >>

\* INSTANTLY_STATUS.get(lead.get("status", 0), f"Unknown ({status})")
StatusLabel(lead) ==
    LET st == Get(lead, "status", IntVal(0)) IN
    IF st.kind = "int" /\ st.n = 0 THEN "Not Started"
    ELSE IF st.kind = "int" /\ st.n \in 1..Len(INSTANTLY_STATUS) THEN INSTANTLY_STATUS[st.n]
    ELSE IF st.kind = "int" THEN "Unknown (" \o ToString(st.n) \o ")"
    ELSE IF st.kind = "str" THEN "Unknown (" \o st.s \o ")"
    ELSE "Unknown (None)"

\* the updates with the first send flag cleared as well
EngagementUpdates_clearing_flag(lead) ==
    << <<"opens", ToString(IntOf(lead, "email_open_count"))>>,
       <<"clicks", ToString(IntOf(lead, "email_click_count"))>>,
       <<"instantly_status", StatusLabel(lead)>>,
       <<"email_1_sent", "FALSE">> >>

\* sync_data of sync_all_leads, as the ordered updates update_from_instantly
\* derives from it
EngagementUpdates(lead) ==
    << <<"opens", ToString(IntOf(lead, "email_open_count"))>>,
       <<"clicks", ToString(IntOf(lead, "email_click_count"))>>,
       <<"instantly_status", StatusLabel(lead)>> >>
    \o (IF IntOf(lead, "email_reply_count") > 0
        THEN << <<"response",
                  "Replied (" \o ToString(IntOf(lead, "email_reply_count")) \o " replies)">>,
                <<"status", "Replied">> >>
        ELSE << >>)

\* update_from_instantly (the lookup did not raise): False when the email
\* is not found or update_lead fails
update_from_instantly(sh, email, lead, failAt) ==
    LET crm_lead == find_lead_by_email(sh, email) IN
    IF ~crm_lead.found THEN [ret |-> FALSE, sheet |-> sh]
    ELSE update_lead(sh, crm_lead.lead.id, EngagementUpdates(lead), failAt)

\* ------------------------------------------------------ the run's position

ReplyKinds == {"module", "dashboard"}

InitialResults(kind) == IF kind = "engagement" THEN EngagementResults ELSE ReplyResults

\* the except clause of the campaign loop, with the counters reset
campaign_raised_resetting(kind, res, campaign, exc) ==
    [InitialResults(kind) EXCEPT !.errors = << CampaignError(kind, campaign, exc) >>]

\* the except clause of the campaign loop
campaign_raised(kind, res, campaign, exc) ==
    [res EXCEPT !.errors = Append(@, CampaignError(kind, campaign, exc))]

\* `len(leads) <= limit` in place of `len(leads) < limit`
last_page_inclusive(page, lim) == Len(page) <= lim

\* if len(leads) < limit: break
last_page(page, lim) == Len(page) < lim

\* The for loop over campaigns moves to the next campaign, or the run
\* returns its results (appended to the history of returned summaries).
NextCampaign(s) ==
    IF s.ci < Len(s.campaigns)
    THEN [s EXCEPT !.pc = "page", !.ci = @ + 1, !.offset = 0,
                   !.items = << >>, !.li = 0, !.replied = << >>]
    ELSE [s EXCEPT !.pc = "idle", !.ci = 0, !.offset = 0,
                   !.items = << >>, !.li = 0, !.replied = << >>,
                   !.history = Append(@, [kind |-> s.kind, results |-> s.results,
                                          start |-> s.start, reqs |-> s.reqs,
                                          campaigns |-> s.campaigns,
                                          faults |-> s.faults - s.fstart])]

\* the campaign's except clause runs, then the loop goes on
Raised(s, exc) ==
    NextCampaign([s EXCEPT
        !.results = campaign_raised(s.kind, s.results, s.campaigns[s.ci], exc),
        !.step.outcome = "raised"])

\* the loop over the current items moves on: the next item, the next page
\* (dashboard, after a full page) or the next campaign
AfterLead(s) ==
    IF s.li < Len(s.items) THEN [s EXCEPT !.li = @ + 1]
    ELSE IF s.kind = "dashboard" /\ ~last_page(s.items, limit)
    THEN [s EXCEPT !.pc = "page", !.offset = @ + limit, !.items = << >>, !.li = 0]
    ELSE NextCampaign(s)

\* get_replied_leads returned: replies_found += len(replied_leads), then the
\* loop over the replied leads
ListComplete(s, replied) ==
    IF replied = << >> THEN NextCampaign(s)
    ELSE [s EXCEPT !.results.replies_found = @ + Len(replied),
                   !.pc = "lead", !.items = replied, !.li = 1]

\* get_replied_leads leaving the loop on a short page before reading it
get_replied_leads_page_drops_last(s, page) ==
    IF page = << >> THEN ListComplete(s, s.replied)
    ELSE IF PageRaises(page)
    THEN Raised(s, PageError(page))
    ELSE IF last_page(page, limit) THEN ListComplete(s, s.replied)
    ELSE [s EXCEPT !.replied = @ \o RepliedOf(page), !.offset = @ + limit]

\* One iteration of the while loop of get_replied_leads on the page the
\* request returned (<< >> for None as for an empty list).
get_replied_leads_page(s, page) ==
    IF page = << >> THEN ListComplete(s, s.replied)
    ELSE IF PageRaises(page)
    THEN Raised(s, PageError(page))
    ELSE IF last_page(page, limit) THEN ListComplete(s, s.replied \o RepliedOf(page))
    ELSE [s EXCEPT !.replied = @ \o RepliedOf(page), !.offset = @ + limit]

\* The dashboard's while loop on the page the request returned
dashboard_page(s, page) ==
    IF page = << >> THEN NextCampaign(s)
    ELSE [s EXCEPT !.pc = "lead", !.items = page, !.li = 1]

\* sync_all_leads: list_leads(campaign_id, limit=100) is one request without
\* a cursor, so it returns the first `limit` leads; None becomes [].
list_leads_page(s, leads) ==
    IF leads = << >> THEN NextCampaign(s)
    ELSE [s EXCEPT !.results.leads_checked = @ + Len(leads),
                   !.pc = "lead", !.items = leads, !.li = 1]

PageStep(s, sh) ==
    [act |-> "page", kind |-> s.kind, ci |-> s.ci, li |-> 0, n |-> 0, email |-> "",
     outcome |-> "page", calls |-> << >>, before |-> sh, prev |-> s.results]

LeadStep(s, sh, email, outcome, calls) ==
    [act |-> "lead", kind |-> s.kind, ci |-> s.ci, li |-> s.li, n |-> Len(s.items),
     email |-> email, outcome |-> outcome, calls |-> calls, before |-> sh,
     prev |-> s.results]

\* the position after a lead the loop passes over (`continue`)
Skipped(s, sh, email, outcome) ==
    [sync |-> AfterLead([s EXCEPT !.step = LeadStep(s, sh, email, outcome, << >>)]),
     sheet |-> sh]

\* A replied lead of a reply pass from `email = lead.get("email")` on:
\* the position and the sheet afterwards.  lookup_ok = FALSE: the store
\* raises inside find_lead_by_email, which catches CellNotFound only.
reply_lead(s, sh, email, reply_text, replied_at, lookup_ok, failAt) ==
    LET r == sync_replied_lead(s.kind, sh, s.results, email, reply_text, replied_at, failAt)
    IN
    IF ~Truthy(email) THEN Skipped(s, sh, email, "no_email")
    ELSE IF ~lookup_ok
    THEN [sync |-> Raised([s EXCEPT !.faults = @ + 1,
                                    !.step = LeadStep(s, sh, email, "raised",
                                                      << "find_lead_by_email" >>)],
                          "APIError"),
          sheet |-> sh]
    ELSE [sync |-> AfterLead([s EXCEPT
                      !.results = r.results,
                      !.faults = IF failAt = NoFailure THEN @ ELSE @ + 1,
                      !.step = LeadStep(s, sh, email, r.outcome, r.calls)]),
          sheet |-> r.sheet]

\* The dashboard's loop body counting a reply only after the email check
dashboard_lead_counting_late(s, sh, lead, lookup_ok, failAt) ==
    IF has_replied(lead).raised
    THEN [sync |-> Raised([s EXCEPT !.step = LeadStep(s, sh, StrOf(lead, "email"),
                                                     "raised", << >>)],
                          ClassifyError(lead)),
          sheet |-> sh]
    ELSE IF ~has_replied(lead).replied
    THEN Skipped(s, sh, StrOf(lead, "email"), "not_replied")
    ELSE IF ~Truthy(StrOf(lead, "email"))
    THEN Skipped(s, sh, StrOf(lead, "email"), "no_email")
    ELSE reply_lead([s EXCEPT !.results.replies_found = @ + 1], sh,
                    StrOf(lead, "email"), StrOf(lead, "reply_text"), None,
                    lookup_ok, failAt)

\* One iteration of the dashboard's for loop over a page
dashboard_lead(s, sh, lead, lookup_ok, failAt) ==
    IF has_replied(lead).raised
    THEN [sync |-> Raised([s EXCEPT !.step = LeadStep(s, sh, StrOf(lead, "email"),
                                                     "raised", << >>)],
                          ClassifyError(lead)),
          sheet |-> sh]
    ELSE IF ~has_replied(lead).replied
    THEN Skipped(s, sh, StrOf(lead, "email"), "not_replied")
    ELSE reply_lead([s EXCEPT !.results.replies_found = @ + 1], sh,
                    StrOf(lead, "email"), StrOf(lead, "reply_text"), None,
                    lookup_ok, failAt)

\* One iteration of the for loop of sync_all_leads
engagement_lead(s, sh, lead, lookup_ok, failAt) ==
    LET email == StrOf(lead, "email")
        s1 == IF IntOf(lead, "email_reply_count") > 0
              THEN [s EXCEPT !.results.replies_found = @ + 1] ELSE s
        u == update_from_instantly(sh, email, lead, failAt)
    IN
    IF ~Truthy(email) THEN Skipped(s, sh, email, "no_email")
    ELSE IF ~lookup_ok
    THEN [sync |-> Raised([s1 EXCEPT !.faults = @ + 1,
                                     !.step = LeadStep(s, sh, email, "raised",
                                                       << "update_from_instantly" >>)],
                          "APIError"),
          sheet |-> sh]
    ELSE [sync |-> AfterLead([s1 EXCEPT
                      !.results = IF u.ret THEN [@ EXCEPT !.crm_updated = @ + 1]
                                  ELSE [@ EXCEPT !.not_in_crm = @ + 1],
                      !.faults = IF failAt = NoFailure THEN @ ELSE @ + 1,
                      !.step = LeadStep(s, sh, email,
                                        IF u.ret THEN "updated" ELSE "not_updated",
                                        << "update_from_instantly" >>)]),
          sheet |-> u.sheet]

\* ------------------------------------------------------------ the runs

MaxRuns == 2        \* synchronisation runs of a behaviour

MaxFaults == 1      \* store and platform calls that fail in a behaviour

Bob == [email |-> "bob@x.com", company |-> "Acme", city |-> "Lisbon"]

BobUpper == [email |-> "Bob@x.com", company |-> "Acme Lda", city |-> "Lisbon"]

Amy == [email |-> "amy@x.com", company |-> "Beta", city |-> "Porto"]

\* Sheets add_lead builds: bob and amy added a second apart and in the same
\* second; bob under two spellings of his address.
SyncSheets ==
    { add_lead(add_lead(EmptySheet, Bob, StartNow).sheet, Amy, StartNow + 1).sheet,
      add_lead(add_lead(EmptySheet, Bob, StartNow).sheet, Amy, StartNow).sheet,
      add_lead(add_lead(EmptySheet, BobUpper, StartNow).sheet, Bob, StartNow + 1).sheet }

InitSync ==
    /\ now = StartNow /\ op = NoOp /\ sourcing = NoSourcing /\ cls = NoCls
    /\ sheet \in SyncSheets
    /\ \E c1 \in FirstCampaignLeads :
          platform = [campaigns |-> Campaigns,
                      leads |-> [c1 |-> c1, c2 |-> << LeadIdle, LeadAmy >>]]
    /\ sync = [NoSync EXCEPT !.pc = "idle", !.kinds = ReplyKinds,
                             !.budget = MaxRuns, !.maxFaults = MaxFaults]

\* The position at the first campaign of a run of `kind` over `campaigns`
\* (ok = FALSE: the campaigns request failed and [] came back)
BeginRun(s0, kind, sh, campaigns, ok) ==
    NextCampaign([s0 EXCEPT
        !.kind = kind, !.campaigns = campaigns, !.ci = 0,
        !.results = [InitialResults(kind) EXCEPT !.campaigns_checked = Len(campaigns)],
        !.reqs = << >>, !.start = sh, !.fstart = s0.faults,
        !.faults = IF ok THEN @ ELSE @ + 1,
        !.step = [NoStep EXCEPT !.act = "start", !.kind = kind, !.before = sh]])

\* A run starts: the results dict, then the campaigns (no single campaign
\* is configured, so get_campaigns is list_campaigns).  list_campaigns
\* returns [] when its request fails.
StartSync ==
    /\ sync.pc = "idle"
    /\ Len(sync.history) < sync.budget
    /\ \E kind \in sync.kinds, ok \in BOOLEAN :
          /\ ok \/ sync.faults < sync.maxFaults
          /\ sync' = BeginRun(sync, kind, sheet,
                              IF ok THEN platform.campaigns ELSE << >>, ok)
    /\ UNCHANGED << sheet, now, op, sourcing, platform, cls >>

\* The GET lead/list request of the current offset and what the loop does
\* with the page: _make_request returns None when the request fails.
GetRepliedLeadsPage ==
    /\ sync.pc = "page" /\ sync.kind = "module"
    /\ \E ok \in BOOLEAN :
          /\ ok \/ sync.faults < sync.maxFaults
          /\ LET id == sync.campaigns[sync.ci].id
                 page == IF ok THEN LeadPage(platform, id, sync.offset, limit) ELSE << >>
             IN sync' = get_replied_leads_page(
                           [sync EXCEPT !.reqs = Append(@, << id, sync.offset >>),
                                        !.faults = IF ok THEN @ ELSE @ + 1,
                                        !.step = PageStep(sync, sheet)], page)
    /\ UNCHANGED << sheet, now, op, sourcing, platform, cls >>

DashboardPage ==
    /\ sync.pc = "page" /\ sync.kind = "dashboard"
    /\ \E ok \in BOOLEAN :
          /\ ok \/ sync.faults < sync.maxFaults
          /\ LET id == sync.campaigns[sync.ci].id
                 page == IF ok THEN LeadPage(platform, id, sync.offset, limit) ELSE << >>
             IN sync' = dashboard_page(
                           [sync EXCEPT !.reqs = Append(@, << id, sync.offset >>),
                                        !.faults = IF ok THEN @ ELSE @ + 1,
                                        !.step = PageStep(sync, sheet)], page)
    /\ UNCHANGED << sheet, now, op, sourcing, platform, cls >>

\* The POST leads/list request of sync_all_leads
ListLeads ==
    /\ sync.pc = "page" /\ sync.kind = "engagement"
    /\ \E ok \in BOOLEAN :
          /\ ok \/ sync.faults < sync.maxFaults
          /\ LET id == sync.campaigns[sync.ci].id
                 leads == IF ok THEN LeadPage(platform, id, 0, limit) ELSE << >>
             IN sync' = list_leads_page(
                           [sync EXCEPT !.reqs = Append(@, << id, 0 >>),
                                        !.faults = IF ok THEN @ ELSE @ + 1,
                                        !.step = PageStep(sync, sheet)], leads)
    /\ UNCHANGED << sheet, now, op, sourcing, platform, cls >>

\* The store calls of one lead that may fail: the lookup when it is reached,
\* a call of update_lead when the update is reached.
FaultsAllowed(s, reach_lookup, reach_update, nupdates, lookup_ok, failAt) ==
    /\ lookup_ok \/ (reach_lookup /\ failAt = NoFailure)
    /\ failAt = NoFailure \/ (reach_update /\ failAt <= nupdates)
    /\ (lookup_ok /\ failAt = NoFailure) \/ s.faults < s.maxFaults

\* sync_replies handles the next replied lead
SyncRepliesLead ==
    /\ sync.pc = "lead" /\ sync.kind = "module"
    /\ \E lookup_ok \in BOOLEAN, failAt \in (0..2) \cup {NoFailure} :
          LET lead == sync.items[sync.li]
              crm_lead == find_lead_by_email(sheet, lead.email)
              r == reply_lead(sync, sheet, lead.email, lead.reply_text,
                              lead.replied_at, lookup_ok, failAt)
          IN /\ FaultsAllowed(sync, Truthy(lead.email),
                              Truthy(lead.email) /\ crm_lead.found
                                  /\ ~Truthy(crm_lead.lead.response),
                              2, lookup_ok, failAt)
             /\ sync' = r.sync
             /\ sheet' = r.sheet
    /\ UNCHANGED << now, op, sourcing, platform, cls >>

\* the dashboard handles the next lead of the page
DashboardLead ==
    /\ sync.pc = "lead" /\ sync.kind = "dashboard"
    /\ \E lookup_ok \in BOOLEAN, failAt \in (0..2) \cup {NoFailure} :
          LET lead == sync.items[sync.li]
              email == StrOf(lead, "email")
              reached == ~has_replied(lead).raised /\ has_replied(lead).replied
                         /\ Truthy(email)
              crm_lead == find_lead_by_email(sheet, email)
              r == dashboard_lead(sync, sheet, lead, lookup_ok, failAt)
          IN /\ FaultsAllowed(sync, reached,
                              reached /\ crm_lead.found /\ ~Truthy(crm_lead.lead.response),
                              2, lookup_ok, failAt)
             /\ sync' = r.sync
             /\ sheet' = r.sheet
    /\ UNCHANGED << now, op, sourcing, platform, cls >>

\* sync_all_leads handles the next lead
SyncAllLeadsLead ==
    /\ sync.pc = "lead" /\ sync.kind = "engagement"
    /\ \E lookup_ok \in BOOLEAN, failAt \in (0..5) \cup {NoFailure} :
          LET lead == sync.items[sync.li]
              email == StrOf(lead, "email")
              r == engagement_lead(sync, sheet, lead, lookup_ok, failAt)
          IN /\ FaultsAllowed(sync, Truthy(email),
                              Truthy(email) /\ find_lead_by_email(sheet, email).found,
                              Len(EngagementUpdates(lead)), lookup_ok, failAt)
             /\ sync' = r.sync
             /\ sheet' = r.sheet
    /\ UNCHANGED << now, op, sourcing, platform, cls >>

NextSync ==
    \/ StartSync
    \/ GetRepliedLeadsPage
    \/ DashboardPage
    \/ SyncRepliesLead
    \/ DashboardLead

SpecSync == InitSync /\ [][NextSync]_vars

\* ---------------------------------------------------- engagement runs

\* The sheets the engagement pass meets: those above, before a reply pass
\* and after one has marked bob's reply.
EngageSheets ==
    SyncSheets \cup
    { mark_response_received(sh, find_lead_by_email(sh, Bob.email).lead.id,
                             "Interested", NoFailure).sheet : sh \in SyncSheets }

InitEngage ==
    /\ now = StartNow /\ op = NoOp /\ sourcing = NoSourcing /\ cls = NoCls
    /\ sheet \in EngageSheets
    /\ \E c1 \in FirstCampaignLeads :
          platform = [campaigns |-> Campaigns,
                      leads |-> [c1 |-> c1, c2 |-> << LeadIdle, LeadAmy >>]]
    /\ sync = [NoSync EXCEPT !.pc = "idle", !.kinds = {"engagement"},
                             !.budget = MaxRuns, !.maxFaults = MaxFaults]

NextEngage ==
    \/ StartSync
    \/ ListLeads
    \/ SyncAllLeadsLead

SpecEngage == InitEngage /\ [][NextEngage]_vars

\* ------------------------------------------------ campaigns of many leads

\* campaign sizes around the multiples of the page size
PageSizes ==
    {0, 1, limit - 1, limit, limit + 1, 2 * limit - 1, 2 * limit, 2 * limit + 1}

\* A campaign of n leads: the leads next to a page boundary have replied,
\* the others have not.
PageLeads(n) ==
    [i \in 1..n |-> IF i % limit \in {0, 1} THEN LeadBob ELSE LeadIdle]

\* One reply run, no failing call, over one campaign of n leads on a
\* platform that honours skip and limit.
InitPage ==
    /\ now = StartNow /\ op = NoOp /\ sourcing = NoSourcing /\ cls = NoCls
    /\ sheet = add_lead(EmptySheet, Bob, StartNow).sheet
    /\ \E n \in PageSizes :
          platform = [campaigns |-> << Campaigns[1] >>,
                      leads |-> [c1 |-> PageLeads(n), c2 |-> << >>]]
    /\ sync = [NoSync EXCEPT !.pc = "idle", !.kinds = ReplyKinds, !.budget = 1]

SpecPage == InitPage /\ [][NextSync]_vars

\* A campaign of n leads for the engagement pass: bob n - 1 times with the
\* same counters, amy last.
EngagePageLeads(n) ==
    [i \in 1..n |-> IF i = n THEN LeadAmy ELSE LeadIdle]

\* One engagement run, no failing call, over one campaign of n leads; bob
\* and amy are in the CRM.
InitEngagePage ==
    /\ now = StartNow /\ op = NoOp /\ sourcing = NoSourcing /\ cls = NoCls
    /\ sheet = add_lead(add_lead(EmptySheet, Bob, StartNow).sheet, Amy, StartNow + 1).sheet
    /\ \E n \in {1, limit - 1, limit, limit + 1} :
          platform = [campaigns |-> << Campaigns[1] >>,
                      leads |-> [c1 |-> EngagePageLeads(n), c2 |-> << >>]]
    /\ sync = [NoSync EXCEPT !.pc = "idle", !.kinds = {"engagement"}, !.budget = 1]

SpecEngagePage == InitEngagePage /\ [][NextEngage]_vars

\* ------------------------------------------------- two overlapping runs

\* The part of the loop body after the lookup, on the lead the lookup
\* returned, without the already-synced check
mark_if_unanswered_unguarded(kind, sh, res, crm_lead, email, reply_text, replied_at) ==
    LET w == mark_response_received(sh, crm_lead.lead.id,
                                    ReplyTextOf(kind, reply_text, replied_at), NoFailure)
    IN
    IF ~crm_lead.found
    THEN [sheet |-> sh, results |-> [res EXCEPT !.not_in_crm = @ + 1], wrote |-> FALSE]
    ELSE IF w.ret
    THEN [sheet |-> w.sheet, results |-> [res EXCEPT !.crm_updated = @ + 1], wrote |-> TRUE]
    ELSE [sheet |-> w.sheet,
          results |-> [res EXCEPT !.errors = Append(@, LeadError(email))], wrote |-> TRUE]

\* The part of the loop body after `crm_lead = find_lead_by_email(email)`:
\* it decides on the lead the lookup returned, and writes to the sheet as
\* it is when mark_response_received runs.
mark_if_unanswered(kind, sh, res, crm_lead, email, reply_text, replied_at) ==
    LET w == mark_response_received(sh, crm_lead.lead.id,
                                    ReplyTextOf(kind, reply_text, replied_at), NoFailure)
    IN
    IF ~crm_lead.found
    THEN [sheet |-> sh, results |-> [res EXCEPT !.not_in_crm = @ + 1], wrote |-> FALSE]
    ELSE IF Truthy(crm_lead.lead.response)
    THEN [sheet |-> sh, results |-> [res EXCEPT !.already_synced = @ + 1], wrote |-> FALSE]
    ELSE IF w.ret
    THEN [sheet |-> w.sheet, results |-> [res EXCEPT !.crm_updated = @ + 1], wrote |-> TRUE]
    ELSE [sheet |-> w.sheet,
          results |-> [res EXCEPT !.errors = Append(@, LeadError(email))], wrote |-> TRUE]

\* A run of a reply pass that has reached one replied lead of the platform
RaceRun(kind, lead) ==
    [kind |-> kind, pc |-> "lookup", email |-> StrOf(lead, "email"),
     reply_text |-> IF kind = "module" THEN RepliedEntry(lead).reply_text
                    ELSE StrOf(lead, "reply_text"),
     replied_at |-> IF kind = "module" THEN RepliedEntry(lead).replied_at ELSE None,
     crm_lead |-> NoLead, results |-> [ReplyResults EXCEPT !.replies_found = 1],
     row |-> 0, target |-> 0, read_at |-> 0, wrote_at |-> 0]

RaceLeads == {LeadBob, LeadBobUpper, LeadAmy}

\* Two runs (the cron job's sync_replies, a dashboard request) in separate
\* processes over the same sheet, both at the same replied lead.
InitRace ==
    /\ now = StartNow /\ op = NoOp /\ sourcing = NoSourcing /\ cls = NoCls
    /\ sheet \in SyncSheets
    /\ \E lead \in RaceLeads, k1 \in ReplyKinds, k2 \in ReplyKinds :
          /\ platform = [campaigns |-> << Campaigns[1] >>,
                         leads |-> [c1 |-> << lead >>, c2 |-> << >>]]
          /\ sync = [NoSync EXCEPT
                        !.pc = "race",
                        !.race = [clock |-> 0,
                                  runs |-> << RaceRun(k1, lead), RaceRun(k2, lead) >>]]

\* run r executes crm_lead = find_lead_by_email(email)
RaceLookup ==
    /\ sync.pc = "race"
    /\ \E r \in 1..Len(sync.race.runs) :
          /\ sync.race.runs[r].pc = "lookup"
          /\ sync' = [sync EXCEPT
                !.race.clock = @ + 1,
                !.race.runs[r] = [@ EXCEPT
                    !.pc = "decide",
                    !.crm_lead = find_lead_by_email(sheet, sync.race.runs[r].email),
                    !.row = find(sheet, sync.race.runs[r].email, field_to_col("email")),
                    !.read_at = sync.race.clock + 1]]
    /\ UNCHANGED << sheet, now, op, sourcing, platform, cls >>

\* run r executes the rest of the loop body on the lead it looked up
RaceMark ==
    /\ sync.pc = "race"
    /\ \E r \in 1..Len(sync.race.runs) :
          LET run == sync.race.runs[r]
              m == mark_if_unanswered(run.kind, sheet, run.results, run.crm_lead,
                                      run.email, run.reply_text, run.replied_at)
          IN /\ run.pc = "decide"
             /\ sheet' = m.sheet
             /\ sync' = [sync EXCEPT
                   !.race.clock = @ + 1,
                   !.race.runs[r] = [@ EXCEPT
                       !.pc = "done",
                       !.results = m.results,
                       !.target = IF m.wrote THEN find(sheet, run.crm_lead.lead.id,
                                                       field_to_col("id"))
                                  ELSE 0,
                       !.wrote_at = IF m.wrote THEN sync.race.clock + 1 ELSE 0]]
    /\ UNCHANGED << now, op, sourcing, platform, cls >>

NextRace == RaceLookup \/ RaceMark

SpecRace == InitRace /\ [][NextRace]_vars

\* ======================================================================
\* Repository calls on existing leads
\* ======================================================================

\* mark_email_sent: update_lead with the step's flag, the minute of now and
\* the status, in the order of the dict literal
\* the dict of mark_email_sent without its "status" entry
EmailSentUpdates_no_status(email_step, t) ==
    << <<"email_" \o ToString(email_step) \o "_sent", "TRUE">>,
       <<"last_contact", MinuteStamp(t)>> >>

EmailSentUpdates(email_step, t) ==
    << <<"email_" \o ToString(email_step) \o "_sent", "TRUE">>,
       <<"last_contact", MinuteStamp(t)>>,
       <<"status", "Contacted">> >>

mark_email_sent(sh, lead_id, email_step, t, failAt) ==
    update_lead(sh, lead_id, EmailSentUpdates(email_step, t), failAt)

\* A store call that raises something other than CellNotFound leaves
\* find_lead_by_email through no except clause.
find_lead_by_email_call(sh, email, fails) ==
    IF fails THEN [raised |-> TRUE, ret |-> NoLead]
    ELSE [raised |-> FALSE, ret |-> find_lead_by_email(sh, email)]

find_lead_by_company_call(sh, company, city, fails) ==
    IF fails THEN [raised |-> TRUE, ret |-> NoLead]
    ELSE [raised |-> FALSE, ret |-> find_lead_by_company(sh, company, city)]

\* add_lead has no try: when its store call number failAt raises, the
\* exception leaves add_lead and nothing is appended.
add_lead_call(sh, d, t, failAt) ==
    LET r == add_lead(sh, d, t) IN
    IF failAt \in 1..Len(r.calls)
    THEN [raised |-> TRUE, ret |-> None, sheet |-> sh,
          calls |-> SubSeq(r.calls, 1, failAt)]
    ELSE [raised |-> FALSE, ret |-> r.ret, sheet |-> r.sheet, calls |-> r.calls]

\* update_from_instantly: its own lookup is outside update_lead's try
update_from_instantly_call(sh, email, lead, lookupFails, failAt) ==
    IF lookupFails THEN [raised |-> TRUE, ret |-> FALSE, sheet |-> sh]
    ELSE LET r == update_from_instantly(sh, email, lead, failAt) IN
         [raised |-> FALSE, ret |-> r.ret, sheet |-> r.sheet]

\* ------------------------------------------------------------ the inputs

\* the id add_lead gave the first lead, and an id of no row
OpsIds == {generate_id(StartNow), "LEAD-0"}

\* email_step: one of the four steps of the sequence
StepInputs == 1..4

ResponseInputs == {"Interested"}

\* updates dicts handed to update_lead: the queueing of main.py, a known
\* field next to an unknown one, only an unknown one, a capitalised known
\* one, and the empty dict
UpdateInputs ==
    { << <<"status", "Queued">> >>,
      << <<"segment", "b2b">>, <<"notes", "vip">> >>,
      << <<"segment", "b2b">> >>,
      << <<"Status", "Won">> >>,
      << >> }

OpsEmails == {"bob@x.com", "nobody@x.com"}

\* platform leads of an engagement pass: one with replies, one without
OpsLeads == {LeadBob, LeadIdle}

\* ------------------------------------------- calls whose store calls succeed

MaxCalls == 3       \* repository calls of one behaviour

NoCall == [name |-> "none", n |-> 0]

\* Bob is in the sheet; the clock is in the last second of a minute.
InitOps ==
    /\ sheet = add_lead(EmptySheet, Bob, StartNow).sheet
    /\ now = StartNow
    /\ op = NoCall
    /\ sourcing = NoSourcing
    /\ platform = NoPlatform
    /\ sync = NoSync
    /\ cls = NoCls

OpsAddLead ==
    \E d \in {Bob, Amy} :
        LET r == add_lead_call(sheet, d, now, NoFailure) IN
        /\ op.n < MaxCalls
        /\ Len(sheet) - 1 < MaxRows
        /\ sheet' = r.sheet
        /\ op' = [name |-> "add_lead", n |-> op.n + 1, d |-> d, ret |-> r.ret,
                  calls |-> r.calls, before |-> sheet, raised |-> r.raised]
        /\ UNCHANGED << now, sourcing, platform, sync, cls >>

FindLeadByEmail ==
    \E email \in OpsEmails :
        LET r == find_lead_by_email_call(sheet, email, FALSE) IN
        /\ op.n < MaxCalls
        /\ op' = [name |-> "find_lead_by_email", n |-> op.n + 1, email |-> email,
                  ret |-> r.ret, before |-> sheet, raised |-> r.raised]
        /\ UNCHANGED << sheet, now, sourcing, platform, sync, cls >>

FindLeadByCompany ==
    \E d \in {Bob, Amy} :
        LET r == find_lead_by_company_call(sheet, d.company, d.city, FALSE) IN
        /\ op.n < MaxCalls
        /\ op' = [name |-> "find_lead_by_company", n |-> op.n + 1,
                  company |-> d.company, city |-> d.city,
                  ret |-> r.ret, before |-> sheet, raised |-> r.raised]
        /\ UNCHANGED << sheet, now, sourcing, platform, sync, cls >>

UpdateLead ==
    \E lead_id \in OpsIds : \E updates \in UpdateInputs :
        LET r == update_lead(sheet, lead_id, updates, NoFailure) IN
        /\ op.n < MaxCalls
        /\ sheet' = r.sheet
        /\ op' = [name |-> "update_lead", n |-> op.n + 1, id |-> lead_id,
                  updates |-> updates, ret |-> r.ret, before |-> sheet,
                  raised |-> FALSE]
        /\ UNCHANGED << now, sourcing, platform, sync, cls >>

\* `again`: the call before this one was the same call, and it succeeded
MarkEmailSent ==
    \E lead_id \in OpsIds : \E email_step \in StepInputs :
        LET r == mark_email_sent(sheet, lead_id, email_step, now, NoFailure) IN
        /\ op.n < MaxCalls
        /\ sheet' = r.sheet
        /\ op' = [name |-> "mark_email_sent", n |-> op.n + 1, id |-> lead_id,
                  step |-> email_step, t |-> now, ret |-> r.ret,
                  before |-> sheet, raised |-> FALSE,
                  again |-> /\ op.name = "mark_email_sent"
                            /\ op.id = lead_id
                            /\ op.step = email_step
                            /\ op.ret]
        /\ UNCHANGED << now, sourcing, platform, sync, cls >>

MarkResponseReceived ==
    \E lead_id \in OpsIds : \E response_text \in ResponseInputs :
        LET r == mark_response_received(sheet, lead_id, response_text, NoFailure) IN
        /\ op.n < MaxCalls
        /\ sheet' = r.sheet
        /\ op' = [name |-> "mark_response_received", n |-> op.n + 1,
                  id |-> lead_id, response_text |-> response_text,
                  ret |-> r.ret, before |-> sheet, raised |-> FALSE]
        /\ UNCHANGED << now, sourcing, platform, sync, cls >>

UpdateFromInstantly ==
    \E email \in OpsEmails : \E lead \in OpsLeads :
        LET r == update_from_instantly_call(sheet, email, lead, FALSE, NoFailure) IN
        /\ op.n < MaxCalls
        /\ sheet' = r.sheet
        /\ op' = [name |-> "update_from_instantly", n |-> op.n + 1,
                  email |-> email, lead |-> lead,
                  ret |-> r.ret, before |-> sheet, raised |-> r.raised]
        /\ UNCHANGED << now, sourcing, platform, sync, cls >>

NextOps ==
    \/ OpsAddLead
    \/ FindLeadByEmail
    \/ FindLeadByCompany
    \/ UpdateLead
    \/ MarkEmailSent
    \/ MarkResponseReceived
    \/ UpdateFromInstantly
    \/ Tick

SpecOps == InitOps /\ [][NextOps]_vars

\* ------------------------------------------- calls whose store call raises

\* Whether store call number failAt of update_lead is made at all: the
\* lookup (0) always, the k-th update_cell when the id is found and the
\* k-th field has a column.
StoreCallMade(sh, lead_id, updates, failAt) ==
    IF failAt = 0 THEN TRUE
    ELSE IF find(sh, lead_id, 1) = 0 THEN FALSE
    ELSE IF failAt > Len(updates) THEN FALSE
    ELSE field_to_col(Lower(updates[failAt][1])) # 0

\* Sheets the calls above build: bob alone, bob after the first email, bob
\* and amy.
FaultSheets ==
    LET bob == add_lead(EmptySheet, Bob, StartNow).sheet IN
    { bob,
      mark_email_sent(bob, generate_id(StartNow), 1, StartNow, NoFailure).sheet,
      add_lead(bob, Amy, StartNow + 1).sheet }

InitFault ==
    /\ sheet \in FaultSheets
    /\ now = StartNow
    /\ op = NoCall
    /\ sourcing = NoSourcing
    /\ platform = NoPlatform
    /\ sync = NoSync
    /\ cls = NoCls

FailedAddLead ==
    \E d \in {Bob, Amy, BobUpper} : \E failAt \in 1..Len(add_lead(sheet, d, now).calls) :
        LET r == add_lead_call(sheet, d, now, failAt) IN
        /\ op.n < MaxFaults
        /\ sheet' = r.sheet
        /\ op' = [name |-> "add_lead", n |-> op.n + 1, d |-> d, ret |-> r.ret,
                  calls |-> r.calls, before |-> sheet, raised |-> r.raised]
        /\ UNCHANGED << now, sourcing, platform, sync, cls >>

FailedFindLeadByEmail ==
    \E email \in OpsEmails :
        LET r == find_lead_by_email_call(sheet, email, TRUE) IN
        /\ op.n < MaxFaults
        /\ op' = [name |-> "find_lead_by_email", n |-> op.n + 1, email |-> email,
                  ret |-> r.ret, before |-> sheet, raised |-> r.raised]
        /\ UNCHANGED << sheet, now, sourcing, platform, sync, cls >>

FailedFindLeadByCompany ==
    \E d \in {Bob, Amy} :
        LET r == find_lead_by_company_call(sheet, d.company, d.city, TRUE) IN
        /\ op.n < MaxFaults
        /\ op' = [name |-> "find_lead_by_company", n |-> op.n + 1,
                  company |-> d.company, city |-> d.city,
                  ret |-> r.ret, before |-> sheet, raised |-> r.raised]
        /\ UNCHANGED << sheet, now, sourcing, platform, sync, cls >>

FailedUpdateLead ==
    \E lead_id \in OpsIds : \E updates \in UpdateInputs :
      \E failAt \in 0..Len(updates) :
        LET r == update_lead(sheet, lead_id, updates, failAt) IN
        /\ op.n < MaxFaults
        /\ StoreCallMade(sheet, lead_id, updates, failAt)
        /\ sheet' = r.sheet
        /\ op' = [name |-> "update_lead", n |-> op.n + 1, id |-> lead_id,
                  updates |-> updates, ret |-> r.ret, before |-> sheet,
                  raised |-> FALSE]
        /\ UNCHANGED << now, sourcing, platform, sync, cls >>

FailedMarkEmailSent ==
    \E lead_id \in OpsIds : \E email_step \in StepInputs :
      \E failAt \in 0..Len(EmailSentUpdates(email_step, now)) :
        LET r == mark_email_sent(sheet, lead_id, email_step, now, failAt) IN
        /\ op.n < MaxFaults
        /\ StoreCallMade(sheet, lead_id, EmailSentUpdates(email_step, now), failAt)
        /\ sheet' = r.sheet
        /\ op' = [name |-> "mark_email_sent", n |-> op.n + 1, id |-> lead_id,
                  step |-> email_step, t |-> now, ret |-> r.ret,
                  before |-> sheet, raised |-> FALSE, again |-> FALSE]
        /\ UNCHANGED << now, sourcing, platform, sync, cls >>

FailedMarkResponseReceived ==
    \E lead_id \in OpsIds : \E response_text \in ResponseInputs :
      \E failAt \in 0..Len(ResponseUpdates(response_text)) :
        LET r == mark_response_received(sheet, lead_id, response_text, failAt) IN
        /\ op.n < MaxFaults
        /\ StoreCallMade(sheet, lead_id, ResponseUpdates(response_text), failAt)
        /\ sheet' = r.sheet
        /\ op' = [name |-> "mark_response_received", n |-> op.n + 1,
                  id |-> lead_id, response_text |-> response_text,
                  ret |-> r.ret, before |-> sheet, raised |-> FALSE]
        /\ UNCHANGED << now, sourcing, platform, sync, cls >>

\* the lookup of update_from_instantly raises (failAt = -1), or a store
\* call of its update_lead does
FailedUpdateFromInstantly ==
    \E email \in OpsEmails : \E lead \in OpsLeads :
      \E failAt \in (-1)..Len(EngagementUpdates(lead)) :
        LET r == update_from_instantly_call(sheet, email, lead, failAt = -1, failAt) IN
        /\ op.n < MaxFaults
        /\ IF failAt = -1 THEN TRUE ELSE find_lead_by_email(sheet, email).found
        /\ sheet' = r.sheet
        /\ op' = [name |-> "update_from_instantly", n |-> op.n + 1,
                  email |-> email, lead |-> lead,
                  ret |-> r.ret, before |-> sheet, raised |-> r.raised]
        /\ UNCHANGED << now, sourcing, platform, sync, cls >>

NextFault ==
    \/ FailedAddLead
    \/ FailedFindLeadByEmail
    \/ FailedFindLeadByCompany
    \/ FailedUpdateLead
    \/ FailedMarkEmailSent
    \/ FailedMarkResponseReceived
    \/ FailedUpdateFromInstantly

SpecFault == InitFault /\ [][NextFault]_vars

\* ======================================================================
\* The entry points of the synchronisation and the daily workflow
\* ======================================================================

\* instantly_api_key as passed and INSTANTLY_API_KEY of the environment:
\* None (not passed / unset), empty, or a key
KeyInputs == {None, "", "sk-1"}

\* api_key = instantly_api_key or os.getenv("INSTANTLY_API_KEY")
ApiKey(instantly_api_key, env) ==
    IF Truthy(instantly_api_key) THEN instantly_api_key ELSE env

\* The module function up to the construction of the syncer: ValueError
\* before anything else when the key is falsy, else the CRM is opened.
Entered(fn, instantly_api_key, env, sh) ==
    LET api_key == ApiKey(instantly_api_key, env) IN
    IF ~Truthy(api_key)
    THEN [fn |-> fn, api_key |-> api_key, raised |-> "ValueError", caught |-> FALSE,
          calls |-> << >>, before |-> sh]
    ELSE [fn |-> fn, api_key |-> api_key, raised |-> "none", caught |-> FALSE,
          calls |-> << "GoogleSheetsCRM" >>, before |-> sh]

\* one engagement run over the platform's campaigns
EngagementRun(s, entry) ==
    [s EXCEPT !.pc = "idle", !.kinds = {"engagement"}, !.budget = 1, !.entry = entry]

FlowCandidates ==
    {Candidate("Acme", "w.io", "bob@x.com", IntVal(45)),
     Candidate("Beta", "w.io", "Bob@x.com", IntVal(45)),
     Candidate("Beta", "w.io", "", IntVal(45))}

InitFlow ==
    /\ sheet \in SourcingSheets
    /\ now = StartNow
    /\ op = NoOp
    /\ \E a \in FlowCandidates, b \in FlowCandidates, target \in 1..MaxTarget :
          sourcing = [pc |-> "waiting", batch |-> << a, b >>, target |-> target]
    /\ platform = [campaigns |-> Campaigns,
                   leads |-> [c1 |-> << LeadBob >>, c2 |-> << LeadIdle, LeadAmy >>]]
    /\ sync = [NoSync EXCEPT !.pc = "entry"]
    /\ cls = NoCls

\* sync_replies_from_instantly called directly (python -m ...sync_replies):
\* with a key it opens the CRM and then names ReplySyncer, which the module
\* does not define.
SyncRepliesFromInstantly ==
    /\ sync.pc = "entry"
    /\ \E instantly_api_key \in KeyInputs, env \in KeyInputs :
          LET e == Entered("sync_replies_from_instantly", instantly_api_key, env, sheet) IN
          sync' = [sync EXCEPT !.pc = "raised",
                               !.entry = IF e.raised = "none"
                                         THEN [e EXCEPT !.raised = "NameError"]
                                         ELSE e]
    /\ UNCHANGED << sheet, now, op, sourcing, platform, cls >>

\* sync_from_instantly called directly
SyncFromInstantly ==
    /\ sync.pc = "entry"
    /\ \E instantly_api_key \in KeyInputs, env \in KeyInputs :
          LET e == Entered("sync_from_instantly", instantly_api_key, env, sheet) IN
          sync' = IF e.raised = "none" THEN EngagementRun(sync, e)
                  ELSE [sync EXCEPT !.pc = "raised", !.entry = e]
    /\ UNCHANGED << sheet, now, op, sourcing, platform, cls >>

\* The names src/outreach/sync_replies.py defines at module level
SyncRepliesNames == {"InstantlySyncer", "sync_replies_from_instantly"}

\* `from .sync_replies import ReplySyncer, sync_replies_from_instantly` of the
\* package's __init__ succeeds when the module defines both names
OutreachImports ==
    {"ReplySyncer", "sync_replies_from_instantly"} \subseteq SyncRepliesNames

\* python scripts/sync_replies.py with INSTANTLY_API_KEY = env: the import of
\* line 33 runs the package's __init__ outside any try (traceback, exit
\* code 1); main() turns every exception of the sync into exit code 1.
ScriptRun(env, sh) ==
    LET e == Entered("sync_replies_from_instantly", None, env, sh) IN
    IF ~OutreachImports
    THEN [fn |-> "scripts/sync_replies.py", api_key |-> env, raised |-> "ImportError",
          caught |-> FALSE, calls |-> << >>, before |-> sh, exit |-> 1]
    ELSE [fn |-> "scripts/sync_replies.py", api_key |-> env,
          raised |-> IF e.raised = "none" THEN "NameError" ELSE e.raised,
          caught |-> TRUE, calls |-> e.calls, before |-> sh, exit |-> 1]

SyncRepliesScript ==
    /\ sync.pc = "entry"
    /\ \E env \in KeyInputs :
          sync' = [sync EXCEPT !.pc = "exited", !.entry = ScriptRun(env, sheet)]
    /\ UNCHANGED << sheet, now, op, sourcing, platform, cls >>

\* Step 1 of run_full_workflow: LeadAutomation.sync_from_instantly passes the
\* configured key on and turns any exception into {"error": ...}.
WorkflowSync ==
    /\ sync.pc = "entry"
    /\ \E instantly_api_key \in KeyInputs, env \in KeyInputs :
          LET e == Entered("LeadAutomation.sync_from_instantly",
                           instantly_api_key, env, sheet)
          IN
          sync' = IF e.raised = "none" THEN EngagementRun(sync, e)
                  ELSE [sync EXCEPT !.pc = "returned",
                                    !.entry = [e EXCEPT !.caught = TRUE]]
    /\ UNCHANGED << sheet, now, op, sourcing, platform, cls >>

\* step 1 of the workflow has returned: the error dict, or the run's results
Step1Returned ==
    /\ sync.entry.fn = "LeadAutomation.sync_from_instantly"
    /\ IF sync.entry.caught THEN sync.pc = "returned"
       ELSE sync.pc = "idle" /\ Len(sync.history) = sync.budget

\* Step 2 of run_full_workflow: self.run_daily_sourcing() is entered
WorkflowSourcing ==
    /\ Step1Returned
    /\ sourcing.pc = "waiting"
    /\ sourcing' = [sourcing EXCEPT !.pc = "start"]
    /\ UNCHANGED << sheet, now, op, platform, sync, cls >>

NextFlow ==
    \/ SyncRepliesFromInstantly
    \/ SyncRepliesScript
    \/ SyncFromInstantly
    \/ WorkflowSync
    \/ StartSync
    \/ ListLeads
    \/ SyncAllLeadsLead
    \/ WorkflowSourcing
    \/ StartSourcing
    \/ SourceCandidate
    \/ FinishSourcing

SpecFlow == InitFlow /\ [][NextFlow]_vars

\* ======================================================================
\* The two row decoders
\* ======================================================================

\* metrics._row_to_dict of the dashboard: pad to 26 cells, then read by its
\* own positions, which put a "Contacted" column after the phone.
dashboard_row_to_dict(row) ==
    LET r == [i \in 1..26 |-> IF i <= Len(row) THEN row[i] ELSE ""] IN
    [ id |-> r[1], company |-> r[2], contact_name |-> r[3], email |-> r[4],
      phone |-> r[5], contacted_flag |-> r[6], website |-> r[7],
      industry |-> r[8], employee_count |-> r[9], city |-> r[10],
      country |-> r[11], lead_score |-> r[12], status |-> r[13],
      date_added |-> r[14], last_contact |-> r[15], email_1_sent |-> r[16],
      email_2_sent |-> r[17], email_3_sent |-> r[18], email_4_sent |-> r[19],
      opens |-> r[20], clicks |-> r[21], response |-> r[22], notes |-> r[23],
      source |-> r[24], linkedin |-> r[25], title |-> r[26] ]

\* A row with a different value in every cell, the row add_lead writes for
\* bob, and that row after a reply and an engagement pass.
DecodeRows ==
    LET bob == add_lead(EmptySheet, Bob, StartNow).sheet
        id == generate_id(StartNow)
    IN { [i \in 1..NCols |-> "v" \o ToString(i)],
         bob[2],
         update_from_instantly(
             mark_email_sent(bob, id, 1, StartNow, NoFailure).sheet,
             Bob.email, LeadBob, NoFailure).sheet[2] }

NotDecoded == [decoded |-> FALSE]

\* a reader is handed the first k cells of a row, k = 0 .. 26
InitDecode ==
    /\ \E full \in DecodeRows : \E k \in 0..NCols :
          op = [name |-> "_row_to_dict", row |-> SubSeq(full, 1, k),
                crm |-> NotDecoded, dashboard |-> NotDecoded]
    /\ sheet = EmptySheet
    /\ now = StartNow
    /\ sourcing = NoSourcing
    /\ platform = NoPlatform
    /\ sync = NoSync
    /\ cls = NoCls

\* GoogleSheetsCRM._row_to_dict on the row
CrmDecode ==
    /\ ~op.crm.decoded
    /\ op' = [op EXCEPT !.crm = [decoded |-> TRUE, lead |-> row_to_dict(op.row)]]
    /\ UNCHANGED << sheet, now, sourcing, platform, sync, cls >>

\* the dashboard's _row_to_dict on the row
DashboardDecode ==
    /\ ~op.dashboard.decoded
    /\ op' = [op EXCEPT !.dashboard =
                 [decoded |-> TRUE, lead |-> dashboard_row_to_dict(op.row)]]
    /\ UNCHANGED << sheet, now, sourcing, platform, sync, cls >>

NextDecode == CrmDecode \/ DashboardDecode

SpecDecode == InitDecode /\ [][NextDecode]_vars

\* ======================================================================
\* Calls of calculate_lead_score
\* ======================================================================

\* The string keys of a lead: present and empty, or present and set; the
\* industry may also be None.
ScoreTexts ==
    {[email |-> e, website |-> w, phone |-> p, linkedin |-> l, industry |-> i] :
        e \in {"", "a@x.com"}, w \in {"", "w.io"}, p \in {"", "+351"},
        l \in {"", "in/a"},
        i \in {None, "", "Digital Marketing", "Software", "Enterprise Software"}}

\* employee_count values: numbers, numeric strings with a comma, a range,
\* a trailing "+", text, the empty string, None
EmployeeCounts ==
    {IntVal(0), IntVal(7), IntVal(45), IntVal(300),
     StrVal("45"), StrVal("7"), StrVal("150"), StrVal("1,200"), StrVal("10-50"),
     StrVal("50+"), StrVal("n/a"), StrVal(""), NoneVal}

\* leads with and without the employee_count key
ScoreLeads ==
    ScoreTexts \cup {t @@ [employee_count |-> c] : t \in ScoreTexts, c \in EmployeeCounts}

InitScore ==
    /\ \E lead \in ScoreLeads :
          op = [name |-> "calculate_lead_score", lead |-> lead, rets |-> << >>]
    /\ sheet = EmptySheet
    /\ now = StartNow
    /\ sourcing = NoSourcing
    /\ platform = NoPlatform
    /\ sync = NoSync
    /\ cls = NoCls

\* one call: the score, or the TypeError of comparing None with 10
Score ==
    /\ Len(op.rets) < 2
    /\ op' = [op EXCEPT !.rets =
                 Append(@, IF ScoreRaises(op.lead)
                           THEN [raised |-> TRUE, score |-> 0]
                           ELSE [raised |-> FALSE,
                                 score |-> calculate_lead_score(op.lead)])]
    /\ UNCHANGED << sheet, now, sourcing, platform, sync, cls >>

SpecScore == InitScore /\ [][Score]_vars

\* ======================================================================
\* Properties of the repository (SpecCrm)
\* ======================================================================

LeadRows(sh) == 2..Len(sh)

\* C5: after any sequence of add_lead calls no two lead rows hold the same
\* non-empty email, emails compared ignoring letter case.
C5_OneRowPerEmail ==
    \A i, j \in LeadRows(sheet) :
        (i # j /\ sheet[i][4] # "") => Lower(sheet[i][4]) # Lower(sheet[j][4])

\* What the two dedup checks of add_lead are to find in the sheet `sh` for
\* lead_data `d`, stated on the rows.
EmailHit(sh, d) ==
    /\ Get(d, "email", "") # ""
    /\ \E i \in 1..Len(sh) : sh[i][4] = Get(d, "email", "")

CompanyHit(sh, d) ==
    /\ Get(d, "company", "") # ""
    /\ \E i \in 1..Len(sh) :
          /\ sh[i][2] = Get(d, "company", "")
          /\ Get(d, "city", "") = "" \/ Lower(sh[i][9]) = Lower(Get(d, "city", ""))

\* the checks precede the write, the email check precedes the company check
ChecksBeforeWrite(calls) ==
    /\ \A k \in 1..Len(calls) : calls[k] = "append_row" => k = Len(calls)
    /\ \A k, l \in 1..Len(calls) :
          (calls[k] = "find_lead_by_email" /\ calls[l] = "find_lead_by_company") => k < l

\* C6: add_lead checks the email, then company + city, before any write; a
\* match of either check returns None and leaves the sheet as it was;
\* otherwise exactly one row is appended (status New unless given, the four
\* send flags FALSE, response empty) and the row's id is returned.
C6_AddLeadContract ==
    op.name = "add_lead" =>
        /\ ChecksBeforeWrite(op.calls)
        /\ (EmailHit(op.before, op.d) \/ CompanyHit(op.before, op.d)) =>
              /\ op.ret = None
              /\ sheet = op.before
              /\ \A k \in 1..Len(op.calls) : op.calls[k] # "append_row"
        /\ ~(EmailHit(op.before, op.d) \/ CompanyHit(op.before, op.d)) =>
              /\ Len(sheet) = Len(op.before) + 1
              /\ SubSeq(sheet, 1, Len(op.before)) = op.before
              /\ op.ret # None
              /\ LET lead == row_to_dict(sheet[Len(sheet)]) IN
                    /\ lead.id = op.ret
                    /\ lead.email = Get(op.d, "email", "")
                    /\ lead.company = Get(op.d, "company", "")
                    /\ lead.status = (IF "status" \in DOMAIN op.d THEN op.d.status ELSE "New")
                    /\ lead.email_1_sent = "FALSE" /\ lead.email_2_sent = "FALSE"
                    /\ lead.email_3_sent = "FALSE" /\ lead.email_4_sent = "FALSE"
                    /\ lead.response = ""
              /\ (Get(op.d, "email", "") # "" =>
                    \E k \in 1..Len(op.calls) : op.calls[k] = "find_lead_by_email")
              /\ (Get(op.d, "company", "") # "" =>
                    \E k \in 1..Len(op.calls) : op.calls[k] = "find_lead_by_company")

\* add_lead rejected a lead whose email was new but whose company and city
\* were already in the sheet: both checks ran, nothing was written
C6_Witness ==
    /\ op.name = "add_lead"
    /\ op.ret = None
    /\ op.calls = << "find_lead_by_email", "find_lead_by_company" >>
    /\ Len(op.before) > 1
    /\ sheet = op.before

\* ======================================================================
\* Properties of run_daily_sourcing (SpecSource)
\* ======================================================================

SourcingRunning == sourcing.pc \in {"loop", "done", "raised"}

\* C8: within one sourcing run no two inserted leads have the same email
\* ignoring case, no inserted lead's lower-cased email was in the email set
\* loaded at the start, and every inserted email is in the in-memory set as
\* soon as it is inserted; the ten-candidate batch whose seventh candidate
\* repeats the second's email inserts exactly nine leads.
C8_BatchDedup ==
    SourcingRunning =>
        /\ \A i, j \in 1..Len(sourcing.new_leads) :
              i # j => Lower(sourcing.new_leads[i].email) # Lower(sourcing.new_leads[j].email)
        /\ \A i \in 1..Len(sourcing.new_leads) :
              /\ Lower(sourcing.new_leads[i].email) \notin sourcing.loaded
              /\ Lower(sourcing.new_leads[i].email) \in sourcing.existing_emails
        /\ (sourcing.pc = "done" /\ sourcing.batch = ExampleBatch) =>
              Len(sourcing.new_leads) = Len(ExampleBatch) - 1

\* the ten-candidate run is over: nine leads are in, the seventh was skipped
C8_Witness ==
    /\ sourcing.pc = "done"
    /\ sourcing.batch = ExampleBatch
    /\ Len(sourcing.new_leads) = 9
    /\ \A i \in 1..Len(sourcing.new_leads) : sourcing.new_leads[i].company # "Co7"
    /\ Len(sheet) = 10

\* ======================================================================
\* Properties of the reply classification (SpecClassify)
\* ======================================================================

\* every key of the lead is absent or holds a value of its declared type
DeclaredTypes(lead) ==
    /\ "status" \in DOMAIN lead => lead.status.kind = "str"
    /\ "replied" \in DOMAIN lead => lead.replied.kind = "bool"
    /\ "reply_count" \in DOMAIN lead => lead.reply_count.kind = "int"

StatusSaysReplied(lead) ==
    "status" \in DOMAIN lead /\ lead.status \in {StrVal("replied"), StrVal("Replied"), StrVal("REPLIED")}

FlagSaysReplied(lead) == "replied" \in DOMAIN lead /\ lead.replied = BoolVal(TRUE)

CounterSaysReplied(lead) ==
    "reply_count" \in DOMAIN lead /\ lead.reply_count.kind = "int" /\ lead.reply_count.n > 0

\* C9: a lead whose fields are absent or of their declared type is
\* classified without raising, and as replied exactly when its status is
\* "replied" in any letter case, or its replied flag is true, or its reply
\* counter is positive; status "Replied" alone suffices.
C9_ClassificationIsOr ==
    (cls.pc = "classified" /\ DeclaredTypes(cls.lead)) =>
        /\ ~cls.result.raised
        /\ cls.result.replied <=>
              (StatusSaysReplied(cls.lead) \/ FlagSaysReplied(cls.lead) \/ CounterSaysReplied(cls.lead))

\* reply_count = 0, replied = false, status = "Replied": classified as replied
C9_Witness ==
    /\ cls.pc = "classified"
    /\ cls.lead = [status |-> StrVal("Replied"), replied |-> BoolVal(FALSE),
                   reply_count |-> IntVal(0)]
    /\ ~cls.result.raised
    /\ cls.result.replied

\* ======================================================================
\* Properties of the synchronisation passes (SpecSync, SpecEngage, SpecPage)
\* ======================================================================

ResponseCol == field_to_col("response")

StatusCol == field_to_col("status")

EmailCol == field_to_col("email")

\* the lead rows of sh holding exactly this email
RowsWithEmail(sh, email) == {i \in 2..Len(sh) : sh[i][EmailCol] = email}

\* the last step was a reply pass handling a replied lead that has an email,
\* whose CRM lookup returned
RepliedLeadLookedUp ==
    /\ sync.step.act = "lead"
    /\ sync.step.kind \in ReplyKinds
    /\ sync.step.outcome \notin {"raised", "not_replied", "no_email"}

AlreadyAnswered ==
    \E i \in RowsWithEmail(sync.step.before, sync.step.email) :
        sync.step.before[i][ResponseCol] # ""

\* C1: in a reply pass, a replied platform lead whose email matches a CRM
\* lead with a non-empty response adds one to already_synced, causes no call
\* of mark_response_received, and that lead's response and status stay as
\* they were.
C1_AtMostOnceGuard ==
    (RepliedLeadLookedUp /\ AlreadyAnswered) =>
        /\ sync.results.already_synced = sync.step.prev.already_synced + 1
        /\ \A k \in 1..Len(sync.step.calls) :
              sync.step.calls[k] # "mark_response_received"
        /\ \A i \in RowsWithEmail(sync.step.before, sync.step.email) :
              /\ sheet[i][ResponseCol] = sync.step.before[i][ResponseCol]
              /\ sheet[i][StatusCol] = sync.step.before[i][StatusCol]

\* bob's response is "Interested" and a pass has just met bob's reply again
C1_Witness ==
    /\ RepliedLeadLookedUp /\ AlreadyAnswered
    /\ sync.step.email = "bob@x.com"
    /\ \E i \in RowsWithEmail(sync.step.before, "bob@x.com") :
          sync.step.before[i][ResponseCol] = "Interested"
    /\ sync.step.outcome = "already_synced"

\* C2: an engagement-sync step never changes a response that is non-empty.
C2_EngagementKeepsResponse ==
    (sync.step.act = "lead" /\ sync.step.kind = "engagement") =>
        \A i \in 2..Len(sync.step.before) :
            sync.step.before[i][ResponseCol] # "" =>
                sheet[i][ResponseCol] = sync.step.before[i][ResponseCol]

\* every replied lead of the platform has an email that a CRM row holds
RepliedLeadsAreInCrm ==
    \A id \in DOMAIN platform.leads :
        \A k \in 1..Len(platform.leads[id]) :
            LET lead == platform.leads[id][k] IN
            (~has_replied(lead).raised /\ has_replied(lead).replied) =>
                RowsWithEmail(sheet, StrOf(lead, "email")) # {}

\* two reply runs have returned, no call failed and no campaign raised
TwoCleanReplyRuns ==
    /\ sync.pc = "idle"
    /\ Len(sync.history) = 2
    /\ sync.faults = 0
    /\ \A k \in 1..2 : /\ sync.history[k].kind \in ReplyKinds
                       /\ sync.history[k].results.errors = << >>

\* C3: of two reply runs in succession over an unchanged platform whose
\* replied leads are all in the CRM, the second updates nothing, counts
\* every reply as already synced and changes no cell.
C3_SecondRunIdempotent ==
    (TwoCleanReplyRuns /\ RepliedLeadsAreInCrm) =>
        /\ sync.history[2].results.crm_updated = 0
        /\ sync.history[2].results.already_synced = sync.history[2].results.replies_found
        /\ sheet = sync.history[2].start

\* the requests of a campaign of n leads: offsets 0, L, ..., floor(n/L)*L
ExpectedRequests(id, n) ==
    [k \in 1..((n \div limit) + 1) |-> << id, (k - 1) * limit >>]

PageRunReturned == sync.pc = "idle" /\ Len(sync.history) = 1

\* C4: the pagination loop over a campaign of N leads requests the offsets
\* 0, L, 2L, ... in this order and never more than floor(N/L)+1 pages (so
\* it ends), and the run returns after exactly floor(N/L)+1 requests.
C4_PaginationTerminates ==
    LET expected == ExpectedRequests("c1", Len(platform.leads.c1)) IN
    /\ Len(sync.reqs) <= Len(expected)
    /\ \A k \in 1..Len(sync.reqs) : sync.reqs[k] = expected[k]
    /\ PageRunReturned => Len(sync.history[1].reqs) = Len(expected)

\* a campaign of exactly L leads took two requests
C4_Witness ==
    /\ PageRunReturned
    /\ Len(platform.leads.c1) = limit
    /\ sync.history[1].reqs = << << "c1", 0 >>, << "c1", limit >> >>

\* C7: a replied lead is counted in not_in_crm only when no CRM row holds
\* its email in any letter case.
C7_LookupIgnoresCase ==
    (RepliedLeadLookedUp /\ sync.step.outcome = "not_in_crm") =>
        ~ \E i \in 2..Len(sync.step.before) :
              Lower(sync.step.before[i][EmailCol]) = Lower(sync.step.email)

SummaryKeys ==
    {"campaigns_checked", "replies_found", "crm_updated", "already_synced",
     "not_in_crm", "errors"}

CampaignRaised == sync.step.outcome = "raised" /\ sync.step.kind \in ReplyKinds

\* the tag of a campaign in an error entry: its name, on the dashboard its id
CampaignTag(kind, campaign) == IF kind = "dashboard" THEN campaign.id ELSE campaign.name

\* C10: a campaign that raises adds exactly one error entry tagged with it,
\* leaves the counters as accumulated, and the run goes on with the next
\* campaign; every run returns the six-key summary with campaigns_checked
\* equal to the number of campaigns listed.
C10_CampaignExceptionIsolated ==
    /\ CampaignRaised =>
          /\ Len(sync.results.errors) = Len(sync.step.prev.errors) + 1
          /\ SubSeq(sync.results.errors, 1, Len(sync.step.prev.errors))
                = sync.step.prev.errors
          /\ sync.results.errors[Len(sync.results.errors)][2]
                = CampaignTag(sync.step.kind, sync.campaigns[sync.step.ci])
          /\ \A c \in SummaryKeys \ {"errors"} : sync.results[c] = sync.step.prev[c]
          /\ IF sync.step.ci < Len(sync.campaigns)
             THEN sync.pc = "page" /\ sync.ci = sync.step.ci + 1
             ELSE sync.pc = "idle"
    /\ \A k \in 1..Len(sync.history) :
          /\ DOMAIN sync.history[k].results = SummaryKeys
          /\ sync.history[k].results.campaigns_checked = Len(sync.history[k].campaigns)

\* the first campaign raised, the second was still processed, and the run
\* returned with the error entry and the second campaign's update
C10_Witness ==
    /\ sync.pc = "idle" /\ Len(sync.history) = 1
    /\ Len(sync.history[1].results.errors) = 1
    /\ sync.history[1].results.errors[1][2] \in {"c1", "Launch"}
    /\ sync.history[1].results.crm_updated = 1
    /\ sync.history[1].results.campaigns_checked = 2

\* the last step was a reply pass whose mark_response_received returned False
MarkFailed == sync.step.act = "lead" /\ sync.step.outcome = "failed"

\* C11: when mark_response_received reports failure for a lead, the pass
\* appends the entry "Failed to update <email>" to errors, leaves crm_updated
\* and the other counters as they were, and goes on: with the next lead of
\* the campaign when there is one, else with the next page or campaign (or
\* the run returns after the last campaign).
C11_LeadFailureIsolated ==
    MarkFailed =>
        /\ sync.results.errors
              = Append(sync.step.prev.errors, << "Failed to update", sync.step.email >>)
        /\ \A c \in SummaryKeys \ {"errors"} : sync.results[c] = sync.step.prev[c]
        /\ IF sync.step.li < sync.step.n
           THEN /\ sync.pc = "lead" /\ sync.ci = sync.step.ci
                /\ sync.li = sync.step.li + 1
           ELSE IF sync.step.kind = "dashboard" /\ sync.step.n >= limit
           THEN sync.pc = "page" /\ sync.ci = sync.step.ci
           ELSE IF sync.step.ci < Len(sync.campaigns)
           THEN sync.pc = "page" /\ sync.ci = sync.step.ci + 1
           ELSE sync.pc = "idle"

\* the update of the first of two replied leads failed and the pass is at
\* the second
C11_Witness ==
    /\ MarkFailed
    /\ sync.step.li = 1 /\ sync.step.n = 2
    /\ sync.pc = "lead" /\ sync.li = 2
    /\ Len(sync.results.errors) = 1
    /\ sync.results.crm_updated = 0

\* the lead counts as replied and its classification does not raise
RepliedOnPlatform(lead) == ~has_replied(lead).raised /\ has_replied(lead).replied

\* the leads of the first k campaigns of the platform, in order
RECURSIVE LeadsOfCampaigns(_, _)
LeadsOfCampaigns(pf, k) ==
    IF k = 0 THEN << >>
    ELSE LeadsOfCampaigns(pf, k - 1) \o pf.leads[pf.campaigns[k].id]

RepliedCount(pf) ==
    Len(SelectSeq(LeadsOfCampaigns(pf, Len(pf.campaigns)), RepliedOnPlatform))

\* C12: a reply run that returns an empty errors list had no failed platform
\* call: it checked every campaign of the platform and examined every page,
\* so it found every replied lead.
C12_FailedCallsRecorded ==
    \A k \in 1..Len(sync.history) :
        sync.history[k].results.errors = << >> =>
            /\ sync.history[k].results.campaigns_checked = Len(platform.campaigns)
            /\ sync.history[k].results.replies_found = RepliedCount(platform)

RaceRuns == sync.race.runs

\* both runs marked the same row's response
BothMarked ==
    /\ \A r \in 1..2 : RaceRuns[r].wrote_at > 0 /\ RaceRuns[r].results.crm_updated = 1
    /\ RaceRuns[1].target = RaceRuns[2].target

\* C13: two overlapping reply runs can both read a lead's response as
\* empty, both call mark_response_received and both count the lead in
\* crm_updated; a run whose lookup comes after another run's write to the
\* row it reads does not write, so a double marking needs the overlap.
C13_RaceNeedsOverlap ==
    /\ \A r \in 1..2 :
          RaceRuns[r].wrote_at > 0 => RaceRuns[r].crm_lead.lead.response = ""
    /\ \A r \in 1..2, o \in 1..2 :
          (r # o /\ RaceRuns[r].wrote_at > 0 /\ RaceRuns[o].wrote_at > 0
                 /\ RaceRuns[o].target = RaceRuns[r].row)
              => RaceRuns[r].read_at < RaceRuns[o].wrote_at

\* both runs read an empty response, both wrote and both counted the lead;
\* the response now holds the text of the later write, not of the first
C13_Witness ==
    /\ BothMarked
    /\ RaceRuns[1].crm_lead.lead.response = "" /\ RaceRuns[2].crm_lead.lead.response = ""
    /\ RaceRuns[1].kind = "module" /\ RaceRuns[2].kind = "dashboard"
    /\ RaceRuns[1].wrote_at < RaceRuns[2].wrote_at
    /\ sheet[RaceRuns[1].target][ResponseCol] = "Replied (synced from Instantly)"

CompanyCol == field_to_col("company")

CityCol == field_to_col("city")

\* C14: no two lead rows have the same non-empty company together with the
\* same city ignoring case, and add_lead rejects a candidate with an empty
\* city whenever a row has its company name.
C14_OneRowPerCompanyCity ==
    /\ \A i, j \in 2..Len(sheet) :
          (i < j /\ sheet[i][CompanyCol] # "" /\ sheet[i][CompanyCol] = sheet[j][CompanyCol])
              => Lower(sheet[i][CityCol]) # Lower(sheet[j][CityCol])
    /\ (/\ op.name = "add_lead"
        /\ Get(op.d, "company", "") # ""
        /\ Get(op.d, "city", "") = ""
        /\ \E i \in 2..Len(op.before) : op.before[i][CompanyCol] = op.d.company)
          => op.ret = None /\ sheet = op.before

\* a candidate without an email whose company is in the sheet under
\* "Lisbon" was offered with the city "lisbon" and rejected
C14_Witness ==
    /\ op.name = "add_lead"
    /\ Get(op.d, "email", "") = ""
    /\ Get(op.d, "company", "") = "Acme" /\ Get(op.d, "city", "") = "lisbon"
    /\ \E i \in 2..Len(op.before) :
          op.before[i][CompanyCol] = "Acme" /\ op.before[i][CityCol] = "Lisbon"
    /\ op.ret = None /\ sheet = op.before


\* ======================================================================
\* Properties of the calls on existing leads (SpecOps, SpecFault)
\* ======================================================================

FlagCol(step) == field_to_col("email_" \o ToString(step) \o "_sent")

FlagCols == {FlagCol(step) : step \in StepInputs}

LastContactCol == field_to_col("last_contact")

\* the row the last call addressed by id, 0 when no row has the id
AddressedRow == find(op.before, op.id, 1)

SameSize == Len(sheet) = Len(op.before)

\* C15 (as amended): mark_email_sent(id, step) on a lead in the sheet sets
\* the step's flag to TRUE, last_contact to the minute of the call and the
\* status to Contacted, and changes no other cell; the same call made again
\* changes nothing but last_contact, which takes the minute of the later call.
C15_MarkEmailSentRestamps ==
    (op.name = "mark_email_sent" /\ AddressedRow # 0) =>
        /\ op.ret = TRUE
        /\ SameSize
        /\ sheet[AddressedRow][FlagCol(op.step)] = "TRUE"
        /\ sheet[AddressedRow][LastContactCol] = MinuteStamp(op.t)
        /\ sheet[AddressedRow][StatusCol] = "Contacted"
        /\ \A i \in 1..Len(sheet) : \A c \in 1..NCols :
              (i # AddressedRow \/ c \notin {FlagCol(op.step), LastContactCol, StatusCol})
                  => sheet[i][c] = op.before[i][c]
        /\ op.again =>
              \A c \in (1..NCols) \ {LastContactCol} :
                  sheet[AddressedRow][c] = op.before[AddressedRow][c]

\* the call is repeated in a later minute and last_contact moves with it
C15_Witness ==
    /\ op.name = "mark_email_sent"
    /\ op.again
    /\ op.ret = TRUE
    /\ sheet[AddressedRow][LastContactCol] = MinuteStamp(op.t)
    /\ op.before[AddressedRow][LastContactCol] # MinuteStamp(op.t)

\* C15 as stated: the repeated call leaves the row exactly as the first
\* call left it.
C15_RepeatLeavesRow ==
    (op.name = "mark_email_sent" /\ op.again) => sheet = op.before

\* C16: a send flag that was TRUE before a repository call is TRUE after it.
C16_SendFlagsMonotonic ==
    op.name # "none" =>
        /\ Len(sheet) >= Len(op.before)
        /\ \A i \in 2..Len(op.before) : \A c \in FlagCols :
              op.before[i][c] = "TRUE" => sheet[i][c] = "TRUE"

\* a call other than mark_email_sent rewrites a row that has a flag set
C16_Witness ==
    /\ op.name \in {"mark_response_received", "update_from_instantly", "update_lead"}
    /\ op.ret = TRUE
    /\ sheet # op.before
    /\ \E i \in 2..Len(op.before) : \E c \in FlagCols :
          op.before[i][c] = "TRUE" /\ sheet[i] # op.before[i]

\* C17: a row with a response and the status Replied keeps both through
\* mark_email_sent, update_from_instantly and the queueing update.
C17_ReplyStateImmutable ==
    (\/ op.name \in {"mark_email_sent", "update_from_instantly"}
     \/ (op.name = "update_lead" /\ op.updates = << <<"status", "Queued">> >>)) =>
        \A i \in 2..Len(op.before) :
            (op.before[i][ResponseCol] # "" /\ op.before[i][StatusCol] = "Replied") =>
                /\ sheet[i][ResponseCol] = op.before[i][ResponseCol]
                /\ sheet[i][StatusCol] = "Replied"

\* the entries of updates whose lower-cased name is the key of column c
KnownAt(updates, c) == {k \in 1..Len(updates) : Lower(updates[k][1]) = HeaderKey[c]}

LastOf(S) == CHOOSE k \in S : \A j \in S : j <= k

\* C18: update_lead on a lead in the sheet returns True and changes exactly
\* the cells its known field names address, to the given values, whatever
\* unknown names the dict also holds; on an id of no row it returns False
\* and the sheet is unchanged.
C18_UpdateLeadFrame ==
    op.name = "update_lead" =>
        IF AddressedRow = 0
        THEN op.ret = FALSE /\ sheet = op.before
        ELSE /\ op.ret = TRUE
             /\ SameSize
             /\ \A i \in 1..Len(sheet) : \A c \in 1..NCols :
                   sheet[i][c] =
                       IF i = AddressedRow /\ KnownAt(op.updates, c) # {}
                       THEN op.updates[LastOf(KnownAt(op.updates, c))][2]
                       ELSE op.before[i][c]

\* an update with a known and an unknown field name changes the row
C18_Witness ==
    /\ op.name = "update_lead"
    /\ AddressedRow # 0
    /\ op.ret = TRUE
    /\ \E k \in 1..Len(op.updates) : field_to_col(Lower(op.updates[k][1])) = 0
    /\ \E k \in 1..Len(op.updates) : field_to_col(Lower(op.updates[k][1])) # 0
    /\ sheet # op.before

\* C19: a call whose store call failed returns its failure value (not
\* found, None, False) and lets no exception out.
C19_StoreFailureIsAResult ==
    /\ op.name \in {"find_lead_by_email", "find_lead_by_company"} =>
          ~op.raised /\ op.ret = NoLead
    /\ op.name = "add_lead" => ~op.raised /\ op.ret = None
    /\ op.name \in {"update_lead", "mark_email_sent", "mark_response_received",
                    "update_from_instantly"} =>
          ~op.raised /\ op.ret = FALSE

\* ======================================================================
\* Properties of the entry points (SpecFlow)
\* ======================================================================

MissingKey ==
    /\ sync.entry.fn \in {"sync_replies_from_instantly", "sync_from_instantly",
                          "LeadAutomation.sync_from_instantly"}
    /\ ~Truthy(sync.entry.api_key)

\* C20: with no API key the entry point raises before any CRM or platform
\* call, the exception reaches its caller, and no further work follows: no
\* request, no sourcing, no change of the sheet.
C20_MissingKeyIsFatal ==
    MissingKey =>
        /\ sync.entry.raised = "ValueError"
        /\ sync.entry.calls = << >>
        /\ sync.reqs = << >>
        /\ ~sync.entry.caught
        /\ sourcing.pc = "waiting"
        /\ sheet = sync.entry.before

\* C21: the sync script run with an API key completes one reply run and
\* exits with code 0 exactly when that run's errors list is empty.
C21_ExitCodeFollowsErrors ==
    (sync.entry.fn = "scripts/sync_replies.py" /\ Truthy(sync.entry.api_key)) =>
        /\ Len(sync.history) = 1
        /\ (sync.entry.exit = 0) <=> (sync.history[1].results.errors = << >>)

\* ======================================================================
\* Properties of the engagement pass over whole campaigns (SpecEngagePage)
\* ======================================================================

OpensCol == field_to_col("opens")

ClicksCol == field_to_col("clicks")

InstantlyStatusCol == field_to_col("instantly_status")

\* the row holds the platform lead's counters and the label of its status
RowMirrors(row, lead) ==
    /\ row[OpensCol] = ToString(IntOf(lead, "email_open_count"))
    /\ row[ClicksCol] = ToString(IntOf(lead, "email_click_count"))
    /\ row[InstantlyStatusCol] = StatusLabel(lead)

\* C22: after an engagement run that returned without errors, every CRM row
\* whose email is that of a lead of a synced campaign mirrors that lead's
\* counters and status label, whatever the size of the campaign.
C22_EngagementMirrorsPlatform ==
    (sync.pc = "idle" /\ Len(sync.history) = 1
        /\ sync.history[1].results.errors = << >>) =>
        \A c \in 1..Len(platform.campaigns) :
            LET leads == platform.leads[platform.campaigns[c].id] IN
            \A k \in 1..Len(leads) : \A i \in 2..Len(sheet) :
                (Truthy(StrOf(leads[k], "email"))
                    /\ sheet[i][EmailCol] = StrOf(leads[k], "email"))
                    => RowMirrors(sheet[i], leads[k])

\* ======================================================================
\* Properties of the row decoders (SpecDecode)
\* ======================================================================

\* C23: the CRM's decode and the dashboard's decode of the same row give the
\* same value for every field both define.
C23_DecodersAgree ==
    (op.crm.decoded /\ op.dashboard.decoded) =>
        \A f \in DOMAIN op.crm.lead \cap DOMAIN op.dashboard.lead :
            op.crm.lead[f] = op.dashboard.lead[f]

\* C24: the CRM's decode of a row of 0 to 26 cells gives every field: the
\* row's cell at the field's column when the row reaches it, else "".
C24_TolerantDecode ==
    op.crm.decoded =>
        /\ DOMAIN op.crm.lead = {HeaderKey[c] : c \in 1..NCols}
        /\ \A c \in 1..NCols :
              op.crm.lead[HeaderKey[c]] =
                  IF c <= Len(op.row) THEN op.row[c] ELSE ""

\* a row of five cells is decoded: the 21 other fields are empty
C24_Witness ==
    /\ op.crm.decoded
    /\ Len(op.row) = 5
    /\ op.crm.lead.phone = op.row[5]
    /\ op.crm.lead.phone # ""
    /\ Cardinality({c \in 1..NCols : op.crm.lead[HeaderKey[c]] = ""}) = 21

\* ======================================================================
\* Properties of calculate_lead_score (SpecScore)
\* ======================================================================

Bracket(b) == IF b THEN 1 ELSE 0

Present(lead, k) == k \in DOMAIN lead /\ lead[k] \notin {"", None}

\* industries that contain one of marketing, advertising, media,
\* communications, pr, creative, digital (letter case ignored)
ContainsKeyword(industry) == industry \in {"Digital Marketing", "Enterprise Software"}

\* the number a tolerant parse reads from an employee count string: commas
\* dropped, a trailing "+" dropped, a range taken at its lower bound, 0 for
\* anything else
TolerantCount(s) ==
    CASE s = "45"    -> 45
      [] s = "7"     -> 7
      [] s = "150"   -> 150
      [] s = "1,200" -> 1200
      [] s = "10-50" -> 10
      [] s = "50+"   -> 50
      [] OTHER       -> 0

ClaimedCount(lead) ==
    IF "employee_count" \notin DOMAIN lead THEN 0
    ELSE IF lead.employee_count.kind = "int" THEN lead.employee_count.n
    ELSE IF lead.employee_count.kind = "str" THEN TolerantCount(lead.employee_count.s)
    ELSE 0

ClaimedScore(lead) ==
    LET n == ClaimedCount(lead)
        E == IF n >= 10 /\ n <= 100 THEN 2 ELSE IF n >= 5 /\ n <= 200 THEN 1 ELSE 0
        sum == 2 * Bracket(Present(lead, "email")) + Bracket(Present(lead, "website"))
               + Bracket(Present(lead, "phone")) + E
               + 2 * Bracket(ContainsKeyword(lead.industry))
               + Bracket(Present(lead, "linkedin"))
    IN IF sum > 10 THEN 10 ELSE sum

\* the employee count is absent, a number, or a string without a trailing "+"
PlainCount(lead) ==
    \/ "employee_count" \notin DOMAIN lead
    \/ lead.employee_count.kind = "int"
    \/ lead.employee_count.kind = "str" /\ lead.employee_count.s # "50+"

ExampleLead ==
    [email |-> "a@x.com", website |-> "w.io", phone |-> "+351", linkedin |-> "in/a",
     industry |-> "Digital Marketing", employee_count |-> StrVal("45")]

\* C25: on a lead whose employee count is absent, a number or a plain
\* string, every call returns min(10, 2*email + website + phone + E
\* + 2*industry keyword + linkedin); two calls on the same lead return the
\* same score, and the example lead scores 9.
C25_ScoreFormula ==
    PlainCount(op.lead) =>
        /\ \A k \in 1..Len(op.rets) :
              ~op.rets[k].raised /\ op.rets[k].score = ClaimedScore(op.lead)
        /\ Len(op.rets) = 2 => op.rets[1] = op.rets[2]
        /\ (op.lead = ExampleLead /\ Len(op.rets) > 0) => op.rets[1].score = 9

\* the example lead has been scored twice
C25_Witness ==
    /\ op.lead = ExampleLead
    /\ Len(op.rets) = 2
    /\ op.rets[1].score = 9
    /\ op.rets[2].score = 9

\* C26: no employee_count value makes the call raise; a count that parses
\* tolerantly contributes by its number and anything else contributes 0.
C26_TolerantEmployeeCount ==
    \A k \in 1..Len(op.rets) :
        ~op.rets[k].raised /\ op.rets[k].score = ClaimedScore(op.lead)

\* C27: every score returned is an integer from 1 to 10.
C27_ScoreRange ==
    \A k \in 1..Len(op.rets) :
        ~op.rets[k].raised => op.rets[k].score \in 1..10

\* ======================================================================
\* Round trips of run_daily_sourcing (SpecSource)
\* ======================================================================

\* the candidate the loop body has just handled
LastCandidate == sourcing.batch[sourcing.k - 1]

\* that candidate was inserted by the body's add_lead
JustInserted == sourcing.step_calls # << >> /\ op.ret # None

\* existing_emails as it was when the body took the candidate up
EmailsBefore ==
    sourcing.loaded \cup
    {Lower(sourcing.new_leads[i].email) :
        i \in 1..(Len(sourcing.new_leads) - (IF JustInserted THEN 1 ELSE 0))}

\* C28: a sourcing run calls get_all_emails once, and a candidate whose
\* lower-cased email is in the in-memory set causes no repository call.
C28_EmailSetLoadedOnce ==
    SourcingRunning =>
        /\ sourcing.loads = 1
        /\ (sourcing.k > 1 /\ Lower(LastCandidate.email) \in EmailsBefore)
              => sourcing.step_calls = << >>

\* a candidate with a website whose email was in the set has been passed
\* over, after an earlier candidate went through add_lead
C28_Witness ==
    /\ sourcing.pc = "loop"
    /\ sourcing.k > 1
    /\ Truthy(LastCandidate.website)
    /\ Truthy(LastCandidate.email)
    /\ Lower(LastCandidate.email) \in EmailsBefore
    /\ sourcing.step_calls = << >>
    /\ Len(sourcing.new_leads) > 0

\* ======================================================================
\* Replied leads the reply passes cannot place (SpecSync)
\* ======================================================================

\* the last step handled a replied lead of a reply pass and nothing raised
RepliedStep ==
    /\ sync.step.act = "lead"
    /\ sync.step.kind \in ReplyKinds
    /\ sync.step.outcome \notin {"not_replied", "raised"}

CrmCounters == {"crm_updated", "already_synced", "not_in_crm", "errors"}

\* C29: a replied lead without an email causes no CRM call and leaves the
\* sheet and crm_updated, already_synced, not_in_crm and errors as they
\* were; a replied lead whose email is in no row adds one to not_in_crm,
\* leaves the other three and the sheet as they were, and only looks up.
C29_UnplacedRepliesAreCounted ==
    /\ (RepliedStep /\ ~Truthy(sync.step.email)) =>
          /\ sync.step.calls = << >>
          /\ sheet = sync.step.before
          /\ \A c \in CrmCounters : sync.results[c] = sync.step.prev[c]
    /\ (RepliedStep /\ Truthy(sync.step.email)
          /\ RowsWithEmail(sync.step.before, sync.step.email) = {}) =>
          /\ sync.step.calls = << "find_lead_by_email" >>
          /\ sheet = sync.step.before
          /\ sync.results.not_in_crm = sync.step.prev.not_in_crm + 1
          /\ \A c \in CrmCounters \ {"not_in_crm"} : sync.results[c] = sync.step.prev[c]

\* a pass has met a replied lead without an email and, before it, a replied
\* lead that is not in the CRM
C29_Witness ==
    /\ RepliedStep
    /\ ~Truthy(sync.step.email)
    /\ sync.results.not_in_crm = 1
    /\ sync.results.replies_found >= 2

\* ======================================================================
\* Lead ids (SpecCrm)
\* ======================================================================

IdCol == field_to_col("id")

\* the ids of the rows of a sheet
IdsOf(sh) == {sh[i][IdCol] : i \in 2..Len(sh)}

\* C30: the id add_lead returns differs from the id of every row that was
\* in the CRM before the call, also when the clock has not advanced since
\* an earlier add_lead.
C30_ReturnedIdIsFresh ==
    (op.name = "add_lead" /\ op.ret # None) => op.ret \notin IdsOf(op.before)

\* ======================================================================
\* response and status after mark_response_received (SpecFault)
\* ======================================================================

\* C31: after mark_response_received has returned, True or False, every
\* row either holds the response text with status Replied or has the
\* response and the status it had before the call.
C31_ResponseAndStatusTogether ==
    op.name = "mark_response_received" =>
        \A i \in 2..Len(sheet) :
            \/ /\ sheet[i][ResponseCol] = op.response_text
               /\ sheet[i][StatusCol] = "Replied"
            \/ /\ sheet[i][ResponseCol] = op.before[i][ResponseCol]
               /\ sheet[i][StatusCol] = op.before[i][StatusCol]

\* ======================================================================
\* Every lead of a campaign is examined once (SpecPage)
\* ======================================================================

CampaignLeads == platform.leads.c1

\* the replied leads among the first n leads of the campaign
RepliedAmongFirst(n) == RepliedOf(SubSeq(CampaignLeads, 1, n))

\* C32: over the pages of one campaign every lead is examined exactly once.
\* get_replied_leads has, before each request, collected the replied leads
\* of all earlier positions, one entry each, and returns one entry per
\* replied lead of the campaign; the dashboard has, at each lead, counted
\* the replied leads of all earlier positions once; the run returns
\* replies_found = the number of replied leads of the campaign.
C32_EveryLeadExaminedOnce ==
    /\ (sync.kind = "module" /\ sync.pc = "page") =>
          sync.replied = RepliedAmongFirst(sync.offset)
    /\ (sync.kind = "module" /\ sync.pc = "lead") =>
          /\ sync.items = RepliedOf(CampaignLeads)
          /\ sync.results.replies_found = Len(sync.items)
    /\ (sync.kind = "dashboard" /\ sync.pc = "lead") =>
          /\ sync.items = LeadPage(platform, "c1", sync.offset, limit)
          /\ sync.results.replies_found =
                Len(RepliedAmongFirst(sync.offset + sync.li - 1))
    /\ PageRunReturned =>
          sync.history[1].results.replies_found = Len(RepliedOf(CampaignLeads))

\* a run over a campaign of 2L+1 leads has returned, having found the five
\* replied leads at positions 1, L, L+1, 2L and 2L+1
C32_Witness ==
    /\ PageRunReturned
    /\ Len(CampaignLeads) = 2 * limit + 1
    /\ Len(sync.history[1].reqs) = 3
    /\ sync.history[1].results.replies_found = 5

\* ======================================================================
\* A failing CRM lookup and the rest of the campaign (SpecSync)
\* ======================================================================

\* the last step was a replied lead whose find_lead_by_email raised
LookupRaised ==
    /\ sync.step.act = "lead"
    /\ sync.step.kind \in ReplyKinds
    /\ sync.step.outcome = "raised"
    /\ sync.step.calls = << "find_lead_by_email" >>

\* C33: when the CRM lookup of one replied lead fails and further leads of
\* the campaign are left, the run goes on with the next of them.
C33_LookupFailureIsPerLead ==
    (LookupRaised /\ sync.step.li < sync.step.n) =>
        /\ sync.pc = "lead"
        /\ sync.ci = sync.step.ci
        /\ sync.li = sync.step.li + 1

\* ======================================================================
\* Counter accounting of a reply run (SpecSync)
\* ======================================================================

Counters == {"campaigns_checked", "replies_found", "crm_updated", "already_synced",
             "not_in_crm"}

\* the per-lead 'Failed to update' entries of an error list
LeadErrors(errors) == {k \in 1..Len(errors) : errors[k][1] = "Failed to update"}

\* the replied leads without an email in the campaigns of a run, by
\* campaign and position
RepliedWithoutEmail(campaigns) ==
    {p \in UNION {{<< ci, k >> : k \in 1..Len(platform.leads[campaigns[ci].id])}
                     : ci \in 1..Len(campaigns)} :
        LET lead == platform.leads[campaigns[p[1]].id][p[2]] IN
        /\ ~has_replied(lead).raised
        /\ has_replied(lead).replied
        /\ ~Truthy(StrOf(lead, "email"))}

\* a returned run in which no campaign raised and no request failed: its
\* only failing calls are the store writes behind its per-lead entries
RunWithoutCampaignError(h) ==
    /\ h.kind \in ReplyKinds
    /\ Cardinality(LeadErrors(h.results.errors)) = Len(h.results.errors)
    /\ h.faults = Len(h.results.errors)

\* the tallies a replied lead can fall into, the skipped one last
Tallies(res, skipped) ==
    << res.crm_updated, res.already_synced, res.not_in_crm,
       Cardinality(LeadErrors(res.errors)), skipped >>

\* C34: a returned reply run in which no campaign raised has replies_found
\* = crm_updated + already_synced + not_in_crm + per-lead error entries +
\* replied leads without email; every replied lead handled adds one to
\* exactly one of these five; no counter is negative or ever decreases
\* during a run.
C34_CounterAccounting ==
    /\ \A k \in 1..Len(sync.history) :
          LET h == sync.history[k] IN
          RunWithoutCampaignError(h) =>
              h.results.replies_found =
                  h.results.crm_updated + h.results.already_synced
                  + h.results.not_in_crm + Cardinality(LeadErrors(h.results.errors))
                  + Cardinality(RepliedWithoutEmail(h.campaigns))
    /\ RepliedStep =>
          LET before == Tallies(sync.step.prev, 0)
              after == Tallies(sync.results, IF Truthy(sync.step.email) THEN 0 ELSE 1)
          IN \E t \in 1..5 :
                /\ after[t] = before[t] + 1
                /\ \A u \in (1..5) \ {t} : after[u] = before[u]
    /\ (sync.kind \in ReplyKinds /\ sync.step.act \in {"page", "lead"}) =>
          /\ \A c \in Counters : /\ sync.results[c] >= 0
                                 /\ sync.results[c] >= sync.step.prev[c]
          /\ Len(sync.results.errors) >= Len(sync.step.prev.errors)

\* a run has returned that found a replied lead without an email and a
\* replied lead whose update failed, no campaign having raised
C34_Witness ==
    /\ sync.pc = "idle"
    /\ \E k \in 1..Len(sync.history) :
          LET h == sync.history[k] IN
          /\ RunWithoutCampaignError(h)
          /\ Len(h.results.errors) = 1
          /\ RepliedWithoutEmail(h.campaigns) # {}
          /\ h.results.replies_found >= 3

\* ======================================================================
\* personalize_and_queue_leads
\* ======================================================================

\* get_all_values()[1:] decoded row by row
DecodedRows(sh) == [k \in 1..(Len(sh) - 1) |-> row_to_dict(row_values(sh[k + 1]))]

\* the condition of get_leads_for_outreach on a decoded lead
OutreachReady(lead) ==
    lead.status = "New" /\ Truthy(lead.email) /\ lead.email_1_sent = "FALSE"

\* get_leads_for_outreach: the ready leads in row order; the loop appends
\* and then breaks at len(leads) >= limit
get_leads_for_outreach(sh, lim) ==
    LET ready == SelectSeq(DecodedRows(sh), OutreachReady)
    IN SubSeq(ready, 1, Min(IF lim < 1 THEN 1 ELSE lim, Len(ready)))

\* config.get("instantly", {}).get("campaign_name", "Agency Outreach")
campaign_name == "Agency Outreach"

\* the id of the first campaign with the configured name, None without one
CampaignIdOf(campaigns) ==
    IF \E k \in 1..Len(campaigns) : campaigns[k].name = campaign_name
    THEN campaigns[CHOOSE k \in 1..Len(campaigns) :
                      /\ campaigns[k].name = campaign_name
                      /\ \A j \in 1..(k - 1) : campaigns[j].name # campaign_name].id
    ELSE None

\* What one POST leads request gives _make_request's caller: the response
\* body, {} for a success without a body, None for a failed request.
RequestOutcomes == {"accepted", "empty", "failed"}

\* add_leads_to_campaign: one request per lead; the truthy results are
\* collected, and the list is returned, or None when it is empty
add_leads_to_campaign(indices, outcome) ==
    SelectSeq(indices, LAMBDA i : outcome[i] = "accepted")

\* the loop `for lead in personalized_leads: update_lead(id, {status: Queued})`
\* over the first n of them; stored[i] = FALSE: the store raises inside
\* update_lead for lead i, which returns False, and the loop goes on
RECURSIVE MarkQueued(_, _, _, _, _)
MarkQueued(sh, leads, indices, stored, n) ==
    IF n = 0 THEN sh
    ELSE update_lead(MarkQueued(sh, leads, indices, stored, n - 1),
                     leads[indices[n]].id, << <<"status", "Queued">> >>,
                     IF stored[indices[n]] THEN NoFailure ELSE 0).sheet

\* personalize_and_queue_leads(leads): personalized[i] = FALSE when
\* personalize_email raises for lead i; campaigns is what list_campaigns
\* returns.  The status loop runs over all personalized leads as soon as the
\* result list is truthy; the return value is len(personalized_leads).
personalize_and_queue_leads(sh, leads, personalized, campaigns, outcome, stored) ==
    LET personalized_leads ==
            SelectSeq([i \in 1..Len(leads) |-> i], LAMBDA i : personalized[i])
        campaign_id == CampaignIdOf(campaigns)
        result == add_leads_to_campaign(personalized_leads, outcome)
    IN
    IF leads = << >> THEN [ret |-> 0, sheet |-> sh]
    ELSE IF personalized_leads # << >> /\ Truthy(campaign_id) /\ result # << >>
    THEN [ret |-> Len(personalized_leads),
          sheet |-> MarkQueued(sh, leads, personalized_leads, stored,
                               Len(personalized_leads))]
    ELSE [ret |-> Len(personalized_leads), sheet |-> sh]

\* What list_campaigns returns: the configured campaign after another one,
\* only another one, nothing (also when the request fails).
QueueCampaigns ==
    { << [id |-> "c2", name |-> "Followup"], [id |-> "c1", name |-> campaign_name] >>,
      << [id |-> "c2", name |-> "Followup"] >>,
      << >> }

\* Sheets with bob and amy, ids a second apart: both new, bob contacted
\* already, both contacted.
QueueSheets ==
    LET both == add_lead(add_lead(EmptySheet, Bob, StartNow).sheet, Amy, StartNow + 1).sheet
        bob1 == mark_email_sent(both, generate_id(StartNow), 1, StartNow + 1, NoFailure).sheet
    IN { both, bob1,
         mark_email_sent(bob1, generate_id(StartNow + 1), 1, StartNow + 1, NoFailure).sheet }

InitQueue ==
    /\ sheet \in QueueSheets
    /\ now = StartNow + 1
    /\ op = NoCall
    /\ sourcing = NoSourcing
    /\ platform = NoPlatform
    /\ sync = NoSync
    /\ cls = NoCls

\* a caller invokes personalize_and_queue_leads() (leads = None)
PersonalizeAndQueueLeads ==
    LET leads == get_leads_for_outreach(sheet, 10) IN
    \E personalized \in [1..Len(leads) -> BOOLEAN], campaigns \in QueueCampaigns,
       outcome \in [1..Len(leads) -> RequestOutcomes],
       stored \in [1..Len(leads) -> BOOLEAN] :
        LET r == personalize_and_queue_leads(sheet, leads, personalized, campaigns,
                                             outcome, stored) IN
        /\ op.name = "none"
        /\ sheet' = r.sheet
        /\ op' = [name |-> "personalize_and_queue_leads", n |-> 1, leads |-> leads,
                  personalized |-> personalized, campaigns |-> campaigns,
                  outcome |-> outcome, stored |-> stored, ret |-> r.ret,
                  before |-> sheet]
        /\ UNCHANGED << now, sourcing, platform, sync, cls >>

SpecQueue == InitQueue /\ [][PersonalizeAndQueueLeads]_vars

\* the status cell of the row update_lead addresses by this id
StatusOf(sh, lead_id) == sh[find(sh, lead_id, 1)][StatusCol]

\* the leads of the call whose status the call turned into Queued
NewlyQueued ==
    {i \in 1..Len(op.leads) :
        /\ StatusOf(sheet, op.leads[i].id) = "Queued"
        /\ StatusOf(op.before, op.leads[i].id) # "Queued"}

\* C35: personalize_and_queue_leads turns a lead's status into Queued only
\* if the campaign was found and the lead's own request succeeded, and it
\* returns the number of leads it queued.
C35_QueuedOnlyIfAccepted ==
    op.name = "personalize_and_queue_leads" =>
        /\ \A i \in NewlyQueued :
              /\ Truthy(CampaignIdOf(op.campaigns))
              /\ op.personalized[i]
              /\ op.outcome[i] # "failed"
        /\ op.ret = Cardinality(NewlyQueued)

\* ======================================================================
\* The two reply passes side by side
\* ======================================================================

\* The one call that fails in both passes: none, the campaigns request, the
\* page request of a campaign at an offset, the CRM lookup of an email, or
\* store call failAt of the update of the lead with an email.
NoFault == [call |-> "none", ci |-> 0, email |-> "", failAt |-> NoFailure]

FaultPlans ==
    {NoFault, [NoFault EXCEPT !.call = "campaigns"]}
    \cup {[NoFault EXCEPT !.call = "page", !.ci = ci] : ci \in 1..Len(Campaigns)}
    \cup {[NoFault EXCEPT !.call = "lookup", !.email = e] : e \in {Bob.email, Amy.email}}
    \cup {[NoFault EXCEPT !.call = "write", !.email = e, !.failAt = k] :
             e \in {Bob.email, Amy.email}, k \in 0..2}

\* A whole reply pass from position s on the sheet sh and the platform pf,
\* with the failing call of the plan: the summary it returns and the sheet
\* it leaves.
RECURSIVE RunToEnd(_, _, _, _)
RunToEnd(s, sh, pf, plan) ==
    IF s.pc = "idle"
    THEN [results |-> s.history[Len(s.history)].results, sheet |-> sh]
    ELSE IF s.pc = "page"
    THEN LET id == s.campaigns[s.ci].id
             ok == ~(plan.call = "page" /\ plan.ci = s.ci /\ s.offset = 0)
             page == IF ok THEN LeadPage(pf, id, s.offset, limit) ELSE << >>
             s1 == [s EXCEPT !.reqs = Append(@, << id, s.offset >>),
                             !.faults = IF ok THEN @ ELSE @ + 1,
                             !.step = PageStep(s, sh)]
         IN RunToEnd(IF s.kind = "module" THEN get_replied_leads_page(s1, page)
                     ELSE dashboard_page(s1, page), sh, pf, plan)
    ELSE LET lead == s.items[s.li]
             email == IF s.kind = "module" THEN lead.email ELSE StrOf(lead, "email")
             lookup_ok == ~(plan.call = "lookup" /\ plan.email = email)
             failAt == IF plan.call = "write" /\ plan.email = email
                           /\ find_lead_by_email(sh, email).found
                           /\ ~Truthy(find_lead_by_email(sh, email).lead.response)
                       THEN plan.failAt ELSE NoFailure
             r == IF s.kind = "module"
                  THEN reply_lead(s, sh, lead.email, lead.reply_text, lead.replied_at,
                                  lookup_ok, failAt)
                  ELSE dashboard_lead(s, sh, lead, lookup_ok, failAt)
         IN RunToEnd(r.sync, r.sheet, pf, plan)

\* sync_replies (kind "module") or _sync_instantly_replies (kind
\* "dashboard") run from start to return
reply_pass(kind, sh, pf, plan) ==
    LET ok == plan.call # "campaigns"
        s0 == [NoSync EXCEPT !.pc = "idle", !.kinds = ReplyKinds, !.budget = 1,
                             !.maxFaults = MaxFaults]
    IN RunToEnd(BeginRun(s0, kind, sh, IF ok THEN pf.campaigns ELSE << >>, ok),
                sh, pf, plan)

NotRun == [done |-> FALSE]

\* A CRM, a platform and a failing call; neither pass has run.
InitAgree ==
    /\ now = StartNow /\ sourcing = NoSourcing /\ cls = NoCls /\ sync = NoSync
    /\ sheet \in SyncSheets
    /\ \E c1 \in FirstCampaignLeads :
          platform = [campaigns |-> Campaigns,
                      leads |-> [c1 |-> c1, c2 |-> << LeadIdle, LeadAmy >>]]
    /\ \E plan \in FaultPlans :
          op = [name |-> "reply_passes", plan |-> plan,
                module |-> NotRun, dashboard |-> NotRun]

\* InstantlySyncer.sync_replies runs on its copy of the CRM
RunSyncReplies ==
    LET r == reply_pass("module", sheet, platform, op.plan) IN
    /\ ~op.module.done
    /\ op' = [op EXCEPT !.module = [done |-> TRUE, results |-> r.results,
                                    sheet |-> r.sheet]]
    /\ UNCHANGED << sheet, now, sourcing, platform, sync, cls >>

\* the dashboard's _sync_instantly_replies runs on its copy of the CRM
RunDashboardSync ==
    LET r == reply_pass("dashboard", sheet, platform, op.plan) IN
    /\ ~op.dashboard.done
    /\ op' = [op EXCEPT !.dashboard = [done |-> TRUE, results |-> r.results,
                                       sheet |-> r.sheet]]
    /\ UNCHANGED << sheet, now, sourcing, platform, sync, cls >>

NextAgree == RunSyncReplies \/ RunDashboardSync

SpecAgree == InitAgree /\ [][NextAgree]_vars

\* the rows of a sheet with status Replied
RepliedRows(sh) == {i \in 2..Len(sh) : sh[i][StatusCol] = "Replied"}

\* no lead of the platform makes the classification raise
WellFormedLeads ==
    \A id \in DOMAIN platform.leads :
        \A k \in 1..Len(platform.leads[id]) : ~has_replied(platform.leads[id][k]).raised

\* C36: run on the same CRM and the same platform with the same call
\* failing, sync_replies and the dashboard's pass mark the same rows Replied
\* and return the same five counts.
C36_ReplyPassesAgree ==
    (op.name = "reply_passes" /\ op.module.done /\ op.dashboard.done
        /\ WellFormedLeads) =>
        /\ RepliedRows(op.module.sheet) = RepliedRows(op.dashboard.sheet)
        /\ \A c \in Counters : op.module.results[c] = op.dashboard.results[c]

\* ======================================================================
\* Encode, decode and update by field name
\* ======================================================================

\* lead_data with every profile key and a value of its own per key (the
\* employee count an int, a str or None), with a status of its own, and
\* with an email only
FullLead(employee_count) ==
    [company |-> "Acme", contact_name |-> "Bob Stone", email |-> "bob@x.com",
     phone |-> "555", website |-> "acme.com", industry |-> "Software",
     employee_count |-> employee_count, city |-> "Lisbon", country |-> "PT",
     lead_score |-> 7, notes |-> "met at expo", source |-> "apollo",
     linkedin |-> "in/bob", title |-> "CEO"]

ColumnLeads ==
    {FullLead(IntVal(25)), FullLead(StrVal("11-50")), FullLead(NoneVal),
     [email |-> "amy@x.com"],
     [email |-> "amy@x.com", company |-> "Beta", status |-> "Queued"]}

\* the keys of a decoded lead
FieldNames == {HeaderKey[i] : i \in 1..NCols}

InitColumns ==
    /\ sheet = EmptySheet
    /\ now = StartNow
    /\ op = NoCall
    /\ sourcing = NoSourcing
    /\ platform = NoPlatform
    /\ sync = NoSync
    /\ cls = NoCls

\* add_lead(lead_data), in the same second as the call before or a second
\* later
ColumnsAddLead ==
    \E d \in ColumnLeads, elapsed \in 0..1 :
        LET r == add_lead(sheet, d, now + elapsed) IN
        /\ op.n < MaxCalls
        /\ Len(sheet) - 1 < MaxRows
        /\ sheet' = r.sheet
        /\ now' = now + elapsed
        /\ op' = [name |-> "add_lead", n |-> op.n + 1, d |-> d, ret |-> r.ret,
                  before |-> sheet]
        /\ UNCHANGED << sourcing, platform, sync, cls >>

\* update_lead(id, {f: v}) for the id of a decoded lead and one of its keys
ColumnsUpdateLead ==
    \E i \in 2..Len(sheet), f \in FieldNames :
        LET lead == row_to_dict(row_values(sheet[i]))
            r == update_lead(sheet, lead.id, << << f, "changed" >> >>, NoFailure)
        IN
        /\ op.n < MaxCalls
        /\ sheet' = r.sheet
        /\ op' = [name |-> "update_lead", n |-> op.n + 1, id |-> lead.id,
                  row |-> i, field |-> f, value |-> "changed", ret |-> r.ret,
                  before |-> sheet]
        /\ UNCHANGED << now, sourcing, platform, sync, cls >>

NextColumns == ColumnsAddLead \/ ColumnsUpdateLead

SpecColumns == InitColumns /\ [][NextColumns]_vars

StringFields ==
    {"company", "contact_name", "email", "phone", "website", "industry", "city",
     "country", "notes", "source", "linkedin", "title"}

\* the cell text of a supplied profile value: the value itself for the
\* string keys, str(value) for employee_count and lead_score, "" without
\* the key
Supplied(d, f) ==
    IF f \notin DOMAIN d THEN ""
    ELSE IF f = "employee_count"
    THEN (CASE d[f].kind = "int" -> ToString(d[f].n)
            [] d[f].kind = "str" -> d[f].s
            [] OTHER -> "None")
    ELSE IF f = "lead_score" THEN ToString(d[f])
    ELSE d[f]

\* C37: decoding the row add_lead appended gives back the returned id, the
\* supplied profile values, status New unless one was supplied, the four
\* send flags FALSE, opens and clicks "0" and an empty response; and
\* update_lead(id, {f: v}) with the id and a key f of a decoded lead changes
\* the cell decode reads as f of that lead and no other cell.
C37_OneColumnMap ==
    /\ (op.name = "add_lead" /\ op.ret # None) =>
          LET lead == row_to_dict(row_values(sheet[Len(sheet)])) IN
          /\ lead.id = op.ret
          /\ \A f \in StringFields \cup {"employee_count", "lead_score"} :
                lead[f] = Supplied(op.d, f)
          /\ lead.status = Get(op.d, "status", "New")
          /\ \A f \in {"email_1_sent", "email_2_sent", "email_3_sent", "email_4_sent"} :
                lead[f] = "FALSE"
          /\ lead.opens = "0" /\ lead.clicks = "0" /\ lead.response = ""
    /\ op.name = "update_lead" =>
          /\ op.ret
          /\ Len(sheet) = Len(op.before)
          /\ \A i \in 1..Len(sheet) :
                LET old == row_to_dict(row_values(op.before[i]))
                    new == row_to_dict(row_values(sheet[i]))
                IN \A g \in FieldNames :
                      new[g] = IF i = op.row /\ g = op.field THEN op.value ELSE old[g]

\* ======================================================================
\* The follow-up sequence
\* ======================================================================

\* f"email_{step}_sent"
email_key(step) == "email_" \o ToString(step) \o "_sent"

\* get_leads_for_followup taking every lead that lacks the step's email
NeedsFollowup_any_previous(lead, step) ==
    IF Truthy(lead.response) THEN FALSE
    ELSE Truthy(lead.email) /\ lead[email_key(step)] = "FALSE"

\* The loop body of get_leads_for_followup: a lead with a response is
\* passed over, then the three conditions
NeedsFollowup(lead, step) ==
    IF Truthy(lead.response) THEN FALSE
    ELSE /\ Truthy(lead.email)
         /\ lead[email_key(step - 1)] = "TRUE"
         /\ lead[email_key(step)] = "FALSE"

get_leads_for_followup(sh, step) ==
    SelectSeq(DecodedRows(sh), LAMBDA lead : NeedsFollowup(lead, step))

MaxSends == 8       \* calls of a behaviour of the sequence

\* Sheets add_lead builds: bob and amy a second apart, bob and amy in the
\* same second, bob and a lead without an email.
FollowupSheets ==
    LET bob == add_lead(EmptySheet, Bob, StartNow).sheet IN
    { add_lead(bob, Amy, StartNow + 1).sheet,
      add_lead(bob, Amy, StartNow).sheet,
      add_lead(bob, [company |-> "Gamma", city |-> "Faro"], StartNow + 1).sheet }

InitFollowup ==
    /\ sheet \in FollowupSheets
    /\ now = StartNow + 1
    /\ op = [name |-> "none", n |-> 0, step |-> 0, leads |-> << >>]
    /\ sourcing = NoSourcing
    /\ platform = NoPlatform
    /\ sync = NoSync
    /\ cls = NoCls

\* the sender asks for the leads of step 1
GetLeadsForOutreach ==
    /\ op.n < MaxSends
    /\ op' = [name |-> "get_leads_for_outreach", n |-> op.n + 1, step |-> 1,
              leads |-> get_leads_for_outreach(sheet, 10)]
    /\ UNCHANGED << sheet, now, sourcing, platform, sync, cls >>

\* the sender asks for the leads of a follow-up step
GetLeadsForFollowup ==
    \E step \in 2..4 :
        /\ op.n < MaxSends
        /\ op' = [name |-> "get_leads_for_followup", n |-> op.n + 1, step |-> step,
                  leads |-> get_leads_for_followup(sheet, step)]
        /\ UNCHANGED << sheet, now, sourcing, platform, sync, cls >>

\* the sender marks the step sent for one of the leads it was given; the
\* store may fail at any call of update_lead
SendStep ==
    \E k \in 1..Len(op.leads), failAt \in (0..3) \cup {NoFailure} :
        LET r == mark_email_sent(sheet, op.leads[k].id, op.step, now, failAt) IN
        /\ op.n < MaxSends
        /\ sheet' = r.sheet
        /\ op' = [op EXCEPT !.name = "mark_email_sent", !.n = @ + 1]
        /\ UNCHANGED << now, sourcing, platform, sync, cls >>

\* a reply pass records the response of a lead
ReplyArrives ==
    \E i \in 2..Len(sheet) :
        /\ op.n < MaxSends
        /\ sheet' = mark_response_received(sheet, sheet[i][1], "Interested",
                                           NoFailure).sheet
        /\ op' = [op EXCEPT !.name = "mark_response_received", !.n = @ + 1]
        /\ UNCHANGED << now, sourcing, platform, sync, cls >>

NextFollowup ==
    \/ GetLeadsForOutreach
    \/ GetLeadsForFollowup
    \/ SendStep
    \/ ReplyArrives

SpecFollowup == InitFollowup /\ [][NextFollowup]_vars

\* the rows that are due for a follow-up step, read from the cells
DueRows(sh, step) ==
    {i \in 2..Len(sh) :
        /\ sh[i][EmailCol] # ""
        /\ sh[i][ResponseCol] = ""
        /\ sh[i][FlagCol(step - 1)] = "TRUE"
        /\ sh[i][FlagCol(step)] = "FALSE"}

\* the decoded rows of a set of row numbers, in row order
DecodedOf(sh, rows) ==
    SelectSeq([k \in 1..(Len(sh) - 1) |->
                  IF k + 1 \in rows THEN row_to_dict(row_values(sh[k + 1]))
                  ELSE NoLead],
              LAMBDA x : x # NoLead)

\* C38: get_leads_for_followup(step) returns exactly the leads with an
\* email, an empty response, the previous step's flag TRUE and the step's
\* flag FALSE, so none with a response; and when step k is marked sent only
\* for leads the selectors returned for step k, a row whose email_k_sent is
\* TRUE has email_j_sent TRUE for every j < k.
C38_FollowupOrder ==
    /\ op.name = "get_leads_for_followup" =>
          /\ op.leads = DecodedOf(sheet, DueRows(sheet, op.step))
          /\ \A k \in 1..Len(op.leads) : op.leads[k].response = ""
    /\ \A i \in 2..Len(sheet) : \A k \in 2..4 : \A j \in 1..(k - 1) :
          sheet[i][FlagCol(k)] = "TRUE" => sheet[i][FlagCol(j)] = "TRUE"

\* one lead has got the first two emails and is the only lead of step 3;
\* the other, who answered after the first email, is not selected
C38_Witness ==
    /\ op.name = "get_leads_for_followup"
    /\ op.step = 3
    /\ Len(op.leads) = 1
    /\ op.leads[1].email_2_sent = "TRUE"
    /\ \E i \in 2..Len(sheet) :
          /\ sheet[i][FlagCol(1)] = "TRUE"
          /\ sheet[i][ResponseCol] # ""
          /\ op.leads[1].email # sheet[i][EmailCol]

====
